---- MODULE Spec2Model ----
(***************************************************************************)
(* A model of the research core of financial-research-app:                 *)
(*   core/hybrid_data_source.py      HybridDataSource                     *)
(*   core/research_orchestrator.py   ResearchOrchestrator                  *)
(*   core/enhanced_orchestrator.py   EnhancedResearchOrchestrator          *)
(*   core/research_storage.py        ResearchStorage                       *)
(*   utils/progress_tracker.py       ProgressTracker                       *)
(*   core/perplexity_client.py       RateLimiter, PerplexityClient         *)
(*                                                                         *)
(* Python dicts are records / functions over the keys that are present;    *)
(* Python's None is the record None.  Every subsystem has its own group of *)
(* variables and its own specification; the variables of the other groups  *)
(* are held at their rest values while one subsystem runs.                 *)
(***************************************************************************)
EXTENDS Integers, Sequences, FiniteSets, TLC

VARIABLES
    \* ---- HybridDataSource.extract_financial_data ----
    hPc,          \* "idle" | "try_ai" | "try_scrape" | "done"
    hClient,      \* self.perplexity_client is set
    hReq,         \* the (company, quarter, year) of the current request
    hCalls,       \* adapters invoked for the current request, in order
    hAi,          \* what _extract_from_perplexity returned (NotCalled before)
    hMc,          \* what _extract_from_moneycontrol returned (NotCalled before)
    hResult,      \* what extract_financial_data returned (NotCalled before)
    hAiOut,       \* what the AI side did for this request (history)
    hMcOut        \* what the scrape side did for this request (history)

hybridVars == <<hPc, hClient, hReq, hCalls, hAi, hMc, hResult, hAiOut, hMcOut>>

VARIABLES
    \* ---- research_company_quarter on a ResearchStorage ----
    oCfg,         \* which orchestrator class, and how it was constructed
    storage,      \* storage_dir: file path -> the JSON document in the file
    oClock,       \* datetime.now() of the next save
    oOp,          \* the last operation: "none" | "research" | "delete"
    oReq,         \* its (company, quarter, year)
    oResult,      \* what it returned (Raised(..) when it raised)
    oQueries,     \* source invocations (AI queries, scrapes) it made
    oAi           \* what the AI side did in it, if it was asked (history)

orchVars == <<oCfg, storage, oClock, oOp, oReq, oResult, oQueries, oAi>>

VARIABLES
    \* ---- research_all_companies with its ProgressTracker ----
    bArgs,        \* companies, quarters, year, parallel, max_workers
    bRaise,       \* the (company, quarter) units whose research raises
    bMain,        \* the calling thread: "start" | "running" | "returned"
    bTasks,       \* one research_company_all_quarters call per list entry
    tracker,      \* self.progress_tracker
    bResults,     \* all_results: company -> (quarter -> outcome)
    bProduced,    \* company -> the quarter indices in the order produced
    bSaved        \* company -> the quarter indices in the order persisted

batchVars == <<bArgs, bRaise, bMain, bTasks, tracker, bResults, bProduced,
               bSaved>>

VARIABLES
    \* ---- PerplexityClient.query ----
    qCfg,         \* the client as constructed: is a cache_manager set
    qCache,       \* cache_dir: cache key -> the response in the file
    qCall,        \* the query in progress: position, arguments, history
    qLimited,     \* calls of self.rate_limiter.wait_if_needed so far
    qCount        \* queries started so far

queryVars == <<qCfg, qCache, qCall, qLimited, qCount>>

VARIABLES
    \* ---- RateLimiter.wait_if_needed ----
    rRpm,         \* self.requests_per_minute
    rRequests,    \* self.requests: the deque of recorded timestamps
    rClock,       \* time.time(), in whole seconds
    rCalls,       \* calls of wait_if_needed so far
    rLast         \* the last call: arrival, window at arrival, return

rateVars == <<rRpm, rRequests, rClock, rCalls, rLast>>

VARIABLES
    \* ---- CacheManager ----
    cTtl,         \* self.ttl_seconds
    cFiles,       \* cache_dir: cache key -> the cache_data in <key>.json
    cStats,       \* self.stats
    cClock,       \* time.time(), in whole seconds
    cLast,        \* the last call: operation, query_params, what it returned
    cWrote        \* history: query mapping -> the last set of it since clear

cacheVars == <<cTtl, cFiles, cStats, cClock, cLast, cWrote>>

VARIABLES
    \* ---- ExtractionValidator.validate ----
    vData,        \* extracted_data: indicator name -> value
    vResult       \* what validate returned (NotCalled before, Raised(..))

validateVars == <<vData, vResult>>

VARIABLES
    \* ---- QuarterlyData.calculate_derived_metrics ----
    dObj,         \* the QuarterlyData object: field name -> value
    dFresh,       \* it was constructed from the nine primitives only
    dCall         \* the call: made or not, whether it raised, where it failed

deriveVars == <<dObj, dFresh, dCall>>

VARIABLES
    \* ---- FinancialDataExtractor.extract_indicator ----
    xText,        \* the text, as far as the extraction looks at it
    xIndicator,   \* the indicator asked for
    xResult       \* what extract_indicator returned

extractVars == <<xText, xIndicator, xResult>>

VARIABLES
    \* ---- FinancialDataExtractor.extract_all_indicators ----
    aFound,       \* what extract_indicator returns for each indicator
    aMarked,      \* the indicators the text marks as not available
    aResults      \* what extract_all_indicators returned

allVars == <<aFound, aMarked, aResults>>

VARIABLES
    \* ---- MoneycontrolScraperV2._match_indicator ----
    mLabel,       \* the label of a table row
    mMatched      \* what _match_indicator returned for it

matchVars == <<mLabel, mMatched>>

VARIABLES
    \* ---- MoneycontrolScraperV2.extract_specific_quarter ----
    sReq,         \* the (quarter, year) asked for
    sPage,        \* what the company's page gives: no URL, no HTML, or tables
    sResult,      \* what extract_specific_quarter returned
    sQuery        \* the period named in the prompt built for the same request

scrapeVars == <<sReq, sPage, sResult, sQuery>>

VARIABLES
    \* ---- ProgressTracker, used by one thread ----
    pTracker,     \* the tracker object
    pStart,       \* self.start_time
    pClock        \* time.time()

progressVars == <<pTracker, pStart, pClock>>

\* export_to_quarterly_data: the orchestrator's storage, the persisted
\* record and what the call gave
VARIABLES eStorage, eResearch, eExport

exportVars == <<eStorage, eResearch, eExport>>

vars == <<hybridVars, orchVars, batchVars, queryVars, rateVars, cacheVars, validateVars, deriveVars, extractVars, allVars, matchVars, scrapeVars, progressVars, exportVars>>

-----------------------------------------------------------------------------
(* Values shared by every subsystem *)

None == [isNone |-> TRUE]
NotCalled == [notCalled |-> TRUE]
\* An exception leaving a function, carrying str(e)
Raised(msg) == [raised |-> TRUE, error |-> msg]
IsRaised(v) == "raised" \in DOMAIN v
EmptyDict == [k \in {} |-> 0]

\* the elements of a list
Range(s) == {s[i] : i \in DOMAIN s}

\* dict.get(key, default)
Get(d, key, default) == IF key \in DOMAIN d THEN d[key] ELSE default

\* Python truthiness of an Optional[dict]: None and {} are falsy
Truthy(d) == d # None /\ DOMAIN d # {}

\* "Tech Mahindra" and "Tech_Mahindra" differ only in the character that
\* ResearchStorage._get_file_path replaces
Companies == {"TCS", "Tech Mahindra", "Tech_Mahindra"}
Quarters == {"Q1", "Q2"}
Years == {2024, 2025}
Requests == [company : Companies, quarter : Quarters, year : Years]
NoRequest == [company |-> "", quarter |-> "", year |-> 0]

Indicators == {"total_income", "pat"}
\* an IndicatorSet: indicator name -> value, for the indicators that matched
IndicatorSets == UNION {[S -> {100}] : S \in SUBSET Indicators}

-----------------------------------------------------------------------------
(* utils/extraction_validator.py: ExtractionValidator.  An indicator set   *)
(* maps the names of the indicators that matched to their values           *)
(* (data[name]['value'] in the code); a message is the list of the parts  *)
(* the code joins into it.                                                 *)

Abs(x) == IF x < 0 THEN -x ELSE x

Pass == [ok |-> TRUE, message |-> <<>>]
Fail(message) == [ok |-> FALSE, message |-> message]

\* lines 30-41
_validate_pbt_not_total_income(data) ==
    IF "pbt" \notin DOMAIN data \/ "total_income" \notin DOMAIN data THEN Pass
    ELSE IF Abs(data["pbt"] - data["total_income"]) < 1
    THEN Fail(<<"PBT equals Total Income - likely extraction error">>)
    ELSE Pass

\* lines 43-55
_validate_pat_not_percentage(data) ==
    IF "pat" \notin DOMAIN data \/ "total_income" \notin DOMAIN data THEN Pass
    ELSE IF data["pat"] < 100 /\ data["total_income"] > 10000
    THEN Fail(<<"PAT appears to be a percentage, not absolute value">>)
    ELSE Pass

\* lines 62-64: one issue per negative profit, in the order of the list
NegativeIssues(data) ==
    LET fields == <<"ebitda", "ebit", "pbt", "pat">>
        negative == SelectSeq(fields,
                        LAMBDA f : f \in DOMAIN data /\ data[f] < 0)
        text == [ebitda |-> "EBITDA is negative", ebit |-> "EBIT is negative",
                 pbt |-> "PBT is negative", pat |-> "PAT is negative"]
    IN [i \in DOMAIN negative |-> text[negative[i]]]

\* line 68-69: (ebitda / total_income) * 100 > 50, for total_income # 0
MarginAbove50(ebitda, total_income) ==
    IF total_income > 0 THEN 2 * ebitda > total_income
    ELSE 2 * ebitda < total_income

\* lines 57-75; the division of line 68 raises for a total_income of 0
_validate_reasonable_ranges(data) ==
    LET margin_checked == "ebitda" \in DOMAIN data /\ "total_income" \in DOMAIN data
    IN  IF margin_checked /\ data["total_income"] = 0
        THEN Raised("ZeroDivisionError")
        ELSE LET issues ==
                    NegativeIssues(data) \o
                    (IF margin_checked
                        /\ MarginAbove50(data["ebitda"], data["total_income"])
                     THEN <<"EBITDA margin seems unreasonably high">>
                     ELSE <<>>)
             IN IF issues # <<>> THEN Fail(issues) ELSE Pass

\* lines 77-95: the first check that fails is the only one reported
_validate_profit_hierarchy(data) ==
    IF /\ "ebitda" \in DOMAIN data /\ "ebit" \in DOMAIN data
       /\ data["ebitda"] < data["ebit"]
    THEN Fail(<<"EBITDA < EBIT - incorrect hierarchy">>)
    ELSE IF /\ "ebit" \in DOMAIN data /\ "pbt" \in DOMAIN data
            /\ 2 * data["pbt"] > 3 * data["ebit"]
    THEN Fail(<<"PBT >> EBIT - verify other income">>)
    ELSE IF /\ "pbt" \in DOMAIN data /\ "pat" \in DOMAIN data
            /\ data["pbt"] > 0 /\ data["pat"] > data["pbt"]
    THEN Fail(<<"PAT > PBT - impossible">>)
    ELSE Pass

\* lines 97-105
_validate_missing_critical_fields(data) ==
    LET critical_fields == <<"ebit", "interest", "other_income">>
        missing == SelectSeq(critical_fields, LAMBDA f : f \notin DOMAIN data)
    IN IF missing # <<>>
       THEN Fail(<<"Missing critical fields for Op. PBT calculation">> \o missing)
       ELSE Pass

\* lines 22-28: self.validation_rules applied to data, in order
RuleResults(data) ==
    <<_validate_pbt_not_total_income(data),
      _validate_pat_not_percentage(data),
      _validate_reasonable_ranges(data),
      _validate_profit_hierarchy(data),
      _validate_missing_critical_fields(data)>>

\* line 133: "Missing critical fields" in message or "impossible" in message
IsErrorMessage(message) ==
    \E i \in DOMAIN message :
        message[i] \in {"Missing critical fields for Op. PBT calculation",
                        "PAT > PBT - impossible"}

Messages(outcomes) ==
    LET failed == SelectSeq(outcomes, LAMBDA o : ~o.ok)
    IN [i \in DOMAIN failed |-> failed[i].message]

\* lines 107-147
validate(extracted_data, company, quarter, year) ==
    LET outcomes == RuleResults(extracted_data) IN
    IF \E i \in DOMAIN outcomes : IsRaised(outcomes[i])
    THEN outcomes[CHOOSE i \in DOMAIN outcomes : IsRaised(outcomes[i])]
    ELSE LET messages == Messages(outcomes)
             errors == SelectSeq(messages, IsErrorMessage)
             warnings == SelectSeq(messages, LAMBDA m : ~IsErrorMessage(m))
         IN [valid |-> errors = <<>>, warnings |-> warnings,
             errors |-> errors, company |-> company, quarter |-> quarter,
             year |-> year]

\* the values an indicator is given, when it is in the set
ValidatorValues ==
    [total_income |-> {0, 100, 20000},
     ebitda |-> {-10, 40, 60},
     ebit |-> {30, 50},
     pbt |-> {-5, 20, 100},
     pat |-> {10, 30, 150},
     interest |-> {5},
     other_income |-> {5}]

\* <<>> for an indicator that is not in the set, <<v>> for its value
Choices(f) == {<<>>} \cup {<<v>> : v \in ValidatorValues[f]}

\* the indicator sets validate is given
ValidatorInputs ==
    {[f \in {g \in DOMAIN c : c[g] # <<>>} |-> c[f][1]] :
        c \in [total_income : Choices("total_income"),
               ebitda : Choices("ebitda"), ebit : Choices("ebit"),
               pbt : Choices("pbt"), pat : Choices("pat"),
               interest : Choices("interest"),
               other_income : Choices("other_income")]}

ValidateInit ==
    /\ vData \in ValidatorInputs
    /\ vResult = NotCalled

ValidateOff ==
    /\ vData = EmptyDict
    /\ vResult = NotCalled

ValidateFrame ==
    UNCHANGED <<hybridVars, orchVars, batchVars, queryVars, rateVars,
                cacheVars,
                deriveVars,
                extractVars,
                allVars,
                matchVars,
                scrapeVars,
                progressVars,
                exportVars>>

\* validator.validate(extracted_data, company, quarter, year)
Validate ==
    /\ vResult = NotCalled
    /\ vResult' = validate(vData, "TCS", "Q1", 2024)
    /\ UNCHANGED vData
    /\ ValidateFrame

ValidateNext == Validate

-----------------------------------------------------------------------------
(* core/hybrid_data_source.py *)

\* What the AI side can do for one request: the client returns nothing, the
\* client raises, the extractor raises, or the client returns a text from
\* which extract_with_context extracts `data`.
AiOutcomes ==
    {[kind |-> "none"], [kind |-> "client_raises"], [kind |-> "extract_raises"]}
    \cup [kind : {"text"}, company_mentioned : BOOLEAN,
          quarter_mentioned : BOOLEAN, data : IndicatorSets]

\* What the scrape side can do: extract_specific_quarter raises, returns
\* None, or returns a (possibly empty) dict of indicators.
ScrapeOutcomes ==
    {[kind |-> "none"], [kind |-> "raises"]}
    \cup [kind : {"data"}, data : IndicatorSets]

\* FinancialDataExtractor.extract_with_context: context_confidence in percent
ContextConfidence(o) ==
    100 - (IF o.company_mentioned THEN 0 ELSE 30)
        - (IF o.quarter_mentioned THEN 0 ELSE 20)

\* The body of the try block of _extract_from_perplexity
PerplexityTry(req, o) ==
    CASE o.kind = "client_raises" -> Raised("client")
      [] o.kind = "none" -> None
      [] o.kind = "extract_raises" -> Raised("extract")
      [] OTHER -> [company |-> req.company, quarter |-> req.quarter,
                   year |-> req.year, source |-> "Perplexity AI",
                   extracted_data |-> o.data,
                   context_confidence |-> ContextConfidence(o),
                   raw_response |-> "text"]

\* the try block without its except clause: the exception leaves the adapter
CatchNothing(v) == v

\* except Exception: return None
CatchAsNone(v) == IF IsRaised(v) THEN None ELSE v

_extract_from_perplexity(req, o) == CatchAsNone(PerplexityTry(req, o))

\* The body of the try block of _extract_from_moneycontrol
MoneycontrolTry(req, o) ==
    CASE o.kind = "raises" -> Raised("scrape")
      [] o.kind = "none" -> None
      [] o.data = EmptyDict -> None
      [] OTHER -> [company |-> req.company, quarter |-> req.quarter,
                   year |-> req.year, source |-> "Moneycontrol",
                   extracted_data |-> o.data, context_confidence |-> 95]

_extract_from_moneycontrol(req, o) == CatchAsNone(MoneycontrolTry(req, o))

\* the test with its second operand negated
UsableInverted(result) ==
    /\ ~IsRaised(result)
    /\ Truthy(result)
    /\ ~Truthy(Get(result, "extracted_data", None))

\* `result and result.get('extracted_data')`
Usable(result) ==
    /\ ~IsRaised(result)
    /\ Truthy(result)
    /\ Truthy(Get(result, "extracted_data", None))

\* the fallback result returned as the adapter built it
MarkFallbackForgotten(result) == result

\* lines 60-63: the three keys set on a fallback result
MarkFallback(result) ==
    [k \in DOMAIN result \cup {"is_fallback", "primary_source_failed",
                                "fallback_message"} |->
        CASE k = "is_fallback" -> TRUE
          [] k = "primary_source_failed" -> "Perplexity"
          [] k = "fallback_message" ->
                "Using Moneycontrol data (Perplexity unavailable)"
          [] OTHER -> result[k]]

\* lines 68-76
EmptyResult(req) ==
    [company |-> req.company, quarter |-> req.quarter, year |-> req.year,
     source |-> "None", extracted_data |-> EmptyDict,
     context_confidence |-> 0, error |-> "No data available from any source"]

HybridIdle ==
    /\ hPc = "idle"
    /\ hReq = NoRequest
    /\ hCalls = <<>>
    /\ hAi = NotCalled
    /\ hMc = NotCalled
    /\ hResult = NotCalled
    /\ hAiOut = NotCalled
    /\ hMcOut = NotCalled

HybridInit == hClient \in BOOLEAN /\ HybridIdle
HybridOff == hClient = FALSE /\ HybridIdle

HybridFrame == UNCHANGED <<orchVars, batchVars, queryVars, rateVars,
                cacheVars,
                validateVars,
                deriveVars,
                extractVars,
                allVars,
                matchVars,
                scrapeVars,
                progressVars,
                exportVars>>

\* extract_financial_data is entered (line 46 decides where it goes first)
HCall ==
    /\ hPc = "idle"
    /\ \E req \in Requests :
          /\ hReq' = req
          /\ hPc' = IF hClient THEN "try_ai" ELSE "try_scrape"
    /\ hCalls' = <<>>
    /\ hAi' = NotCalled
    /\ hMc' = NotCalled
    /\ hResult' = NotCalled
    /\ hAiOut' = NotCalled
    /\ hMcOut' = NotCalled
    /\ UNCHANGED hClient
    /\ HybridFrame

\* lines 47-51
HTryPerplexity ==
    /\ hPc = "try_ai"
    /\ \E o \in AiOutcomes :
          LET perplexity_result == _extract_from_perplexity(hReq, o) IN
          /\ hAi' = perplexity_result
          /\ hAiOut' = o
          /\ hCalls' = Append(hCalls, "AI")
          /\ IF IsRaised(perplexity_result)
             THEN hPc' = "done" /\ hResult' = perplexity_result
             ELSE IF Usable(perplexity_result)
             THEN hPc' = "done" /\ hResult' = perplexity_result
             ELSE hPc' = "try_scrape" /\ hResult' = hResult
    /\ UNCHANGED <<hClient, hReq, hMc, hMcOut>>
    /\ HybridFrame

\* lines 55-76
HTryMoneycontrol ==
    /\ hPc = "try_scrape"
    /\ \E o \in ScrapeOutcomes :
          LET moneycontrol_result == _extract_from_moneycontrol(hReq, o) IN
          /\ hMc' = moneycontrol_result
          /\ hMcOut' = o
          /\ hCalls' = Append(hCalls, "Scrape")
          /\ hResult' = IF IsRaised(moneycontrol_result)
                        THEN moneycontrol_result
                        ELSE IF Usable(moneycontrol_result)
                        THEN MarkFallback(moneycontrol_result)
                        ELSE EmptyResult(hReq)
    /\ hPc' = "done"
    /\ UNCHANGED <<hClient, hReq, hAi, hAiOut>>
    /\ HybridFrame

\* the caller takes the result; the source is ready for the next request
HReturn ==
    /\ hPc = "done"
    /\ hPc' = "idle"
    /\ UNCHANGED <<hClient, hReq, hCalls, hAi, hMc, hResult, hAiOut, hMcOut>>
    /\ HybridFrame

-----------------------------------------------------------------------------
(* core/research_storage.py *)

\* the saves the model follows (each takes a new timestamp)
MaxClock == 2

\* company.replace(' ', '_')
ReplaceSpaces(company) ==
    IF company = "Tech Mahindra" THEN "Tech_Mahindra" ELSE company

\* f"{company.replace(' ', '_')}_{quarter}_{year}.json"
_get_file_path(company, quarter, year) ==
    <<ReplaceSpaces(company), quarter, year>>

\* research_data after lines 48-49
Stamped(research_data, now) ==
    [k \in DOMAIN research_data \cup {"save_timestamp", "version"} |->
        CASE k = "save_timestamp" -> now
          [] k = "version" -> Get(research_data, "version", 1)
          [] OTHER -> research_data[k]]

\* the storage directory after save_research(research_data)
save_research(store, research_data, now) ==
    LET file_path == _get_file_path(research_data.company,
                                    research_data.quarter, research_data.year)
    IN [f \in DOMAIN store \cup {file_path} |->
            IF f = file_path THEN Stamped(research_data, now) ELSE store[f]]

\* a file whose content json.load cannot parse
Corrupt == [corrupt |-> TRUE]

\* lines 73-88: no file, or json.load raises and the except returns None,
\* or the parsed document
load_research(store, company, quarter, year) ==
    LET file_path == _get_file_path(company, quarter, year) IN
    IF file_path \notin DOMAIN store THEN None
    ELSE IF store[file_path] = Corrupt THEN None
    ELSE store[file_path]

\* the storage directory after delete_research
delete_research(store, company, quarter, year) ==
    LET file_path == _get_file_path(company, quarter, year) IN
    [f \in DOMAIN store \ {file_path} |-> store[f]]

-----------------------------------------------------------------------------
(* core/research_orchestrator.py and core/enhanced_orchestrator.py:        *)
(* research_company_quarter                                                *)

OrchRequests == [company : Companies, quarter : Quarters, year : {2024}]

OrchIndicatorSets == {d \in IndicatorSets : DOMAIN d \subseteq {"total_income"}}

\* the indicator sets extracted from a response: one the validator rejects
\* (nothing matched), one it accepts, and one with a total income of 0
ResearchIndicatorSets ==
    {EmptyDict,
     [total_income |-> 100, ebit |-> 30, interest |-> 5, other_income |-> 5],
     [total_income |-> 0, ebitda |-> 40]}

\* What the AI side can do in a research: get_company_financials returns
\* None or raises, extract_with_context raises, or a text is extracted.
OrchAiOutcomes ==
    {[kind |-> "none"], [kind |-> "client_raises"], [kind |-> "extract_raises"]}
    \cup [kind : {"text"}, company_mentioned : {TRUE},
          quarter_mentioned : {TRUE}, data : ResearchIndicatorSets]

OrchScrapeOutcomes ==
    {[kind |-> "none"], [kind |-> "raises"]}
    \cup [kind : {"data"}, data : OrchIndicatorSets]

OrchConfigs ==
    {[kind |-> "basic", storage |-> TRUE, use_moneycontrol |-> FALSE,
      client |-> TRUE]}
    \cup [kind : {"enhanced"}, storage : BOOLEAN, use_moneycontrol : BOOLEAN,
          client : BOOLEAN]

\* what a call of research_company_quarter leaves behind
Outcome(ret, store, queries) ==
    [ret |-> ret, store |-> store, queries |-> queries]

\* the short circuit never taken
ExistingNever(existing) == FALSE

\* `if existing:`
Existing(existing) == Truthy(existing)

\* ResearchOrchestrator.research_company_quarter, lines 64-107
ResearchFresh(store, req, ai, now) ==
    CASE ai.kind = "client_raises" -> Outcome(Raised("client"), store, 1)
      [] ai.kind = "none" ->
            Outcome([company |-> req.company, quarter |-> req.quarter,
                     year |-> req.year, status |-> "failed",
                     error |-> "API query failed"], store, 1)
      [] ai.kind = "extract_raises" -> Outcome(Raised("extract"), store, 1)
      [] OTHER ->
            LET validation_result ==
                    validate(ai.data, req.company, req.quarter, req.year)
                research_data ==
                    [company |-> req.company, quarter |-> req.quarter,
                     year |-> req.year, status |-> "success",
                     raw_response |-> "text",
                     extracted_data |-> ai.data,
                     context_confidence |-> ContextConfidence(ai),
                     validation |-> validation_result]
            IN IF IsRaised(validation_result)
               THEN Outcome(validation_result, store, 1)
               ELSE Outcome(Stamped(research_data, now),
                            save_research(store, research_data, now), 1)

\* ResearchOrchestrator.research_company_quarter
ResearchBasic(store, req, ai, now) ==
    LET existing == load_research(store, req.company, req.quarter, req.year) IN
    IF Existing(existing)
    THEN Outcome(existing, store, 0)
    ELSE ResearchFresh(store, req, ai, now)

\* MoneycontrolFinancialExtractor.extract_with_fallback: the result and the
\* number of sources it consulted
extract_with_fallback(cfg, req, sc, ai) ==
    LET mc_result == _extract_from_moneycontrol(req, sc)
        empty == [company |-> req.company, quarter |-> req.quarter,
                  year |-> req.year, source |-> "None",
                  extracted_data |-> EmptyDict, context_confidence |-> 0,
                  error |-> "No data available from Moneycontrol or Perplexity"]
    IN  IF Truthy(mc_result) THEN <<mc_result, 1>>
        ELSE IF ~cfg.client THEN <<empty, 1>>
        ELSE IF ai.kind = "text"
        THEN <<[company |-> req.company, quarter |-> req.quarter,
                year |-> req.year, source |-> "Perplexity AI",
                extracted_data |-> ai.data,
                context_confidence |-> ContextConfidence(ai)], 2>>
        ELSE <<empty, 2>>

\* EnhancedResearchOrchestrator.research_company_quarter, lines 71-96: the
\* extraction result (or the exception) and the sources consulted
EnhancedExtract(cfg, req, sc, ai) ==
    IF cfg.use_moneycontrol THEN extract_with_fallback(cfg, req, sc, ai)
    ELSE IF ~cfg.client
    THEN <<[company |-> req.company, quarter |-> req.quarter,
            year |-> req.year, status |-> "failed",
            error |-> "No extractor available"], 0>>
    ELSE CASE ai.kind = "client_raises" -> <<Raised("client"), 1>>
           [] ai.kind = "extract_raises" -> <<Raised("extract"), 1>>
           [] ai.kind = "text" ->
                <<[company |-> req.company, quarter |-> req.quarter,
                   year |-> req.year, extracted_data |-> ai.data,
                   context_confidence |-> ContextConfidence(ai),
                   raw_text |-> "text"], 1>>
           [] OTHER ->
                <<[company |-> req.company, quarter |-> req.quarter,
                   year |-> req.year, status |-> "failed",
                   error |-> "API query failed"], 1>>

\* EnhancedResearchOrchestrator.research_company_quarter
ResearchEnhanced(cfg, store, req, sc, ai, now) ==
    LET existing == IF cfg.storage
                    THEN load_research(store, req.company, req.quarter, req.year)
                    ELSE None
        extracted == EnhancedExtract(cfg, req, sc, ai)
        result == extracted[1]
        research_data ==
            [company |-> req.company, quarter |-> req.quarter,
             year |-> req.year,
             status |-> IF Truthy(Get(result, "extracted_data", EmptyDict))
                        THEN "success" ELSE "partial",
             source |-> Get(result, "source", "Unknown"),
             extracted_data |-> Get(result, "extracted_data", EmptyDict),
             context_confidence |-> Get(result, "context_confidence", 0)]
    IN  IF cfg.storage /\ Existing(existing) THEN Outcome(existing, store, 0)
        ELSE IF IsRaised(result) THEN Outcome(result, store, extracted[2])
        ELSE IF cfg.storage
        THEN Outcome(Stamped(research_data, now),
                     save_research(store, research_data, now), extracted[2])
        ELSE Outcome(research_data, store, extracted[2])

research_company_quarter(cfg, store, req, sc, ai, now) ==
    IF cfg.kind = "basic"
    THEN ResearchBasic(store, req, ai, now)
    ELSE ResearchEnhanced(cfg, store, req, sc, ai, now)

\* the outcomes of the sources this configuration can consult
ScrapeInputs(cfg) ==
    IF cfg.kind = "enhanced" /\ cfg.use_moneycontrol
    THEN OrchScrapeOutcomes ELSE {[kind |-> "none"]}

AiInputs(cfg) ==
    IF cfg.client THEN OrchAiOutcomes ELSE {[kind |-> "none"]}

OrchRest ==
    /\ storage = EmptyDict
    /\ oClock = 0
    /\ oOp = "none"
    /\ oReq = NoRequest
    /\ oResult = NotCalled
    /\ oQueries = 0
    /\ oAi = [kind |-> "none"]

OrchInit == oCfg \in OrchConfigs /\ OrchRest
OrchOff == oCfg = [kind |-> "basic", storage |-> TRUE,
                   use_moneycontrol |-> FALSE, client |-> TRUE] /\ OrchRest

OrchFrame == UNCHANGED <<hybridVars, batchVars, queryVars, rateVars,
                cacheVars,
                validateVars,
                deriveVars,
                extractVars,
                allVars,
                matchVars,
                scrapeVars,
                progressVars,
                exportVars>>

\* one call of research_company_quarter(company, quarter, year)
ResearchOne ==
    /\ oClock < MaxClock
    /\ \E req \in OrchRequests, sc \in ScrapeInputs(oCfg), ai \in AiInputs(oCfg) :
          LET out == research_company_quarter(oCfg, storage, req, sc, ai, oClock) IN
          /\ oReq' = req
          /\ oResult' = out.ret
          /\ storage' = out.store
          /\ oQueries' = out.queries
          /\ oAi' = IF out.queries = 0 THEN [kind |-> "none"] ELSE ai
          /\ oClock' = IF out.store = storage THEN oClock ELSE oClock + 1
    /\ oOp' = "research"
    /\ UNCHANGED oCfg
    /\ OrchFrame

\* one call of storage.delete_research(company, quarter, year)
DeleteOne ==
    /\ oCfg.storage
    /\ \E req \in OrchRequests :
          /\ oReq' = req
          /\ oResult' = [deleted |->
                _get_file_path(req.company, req.quarter, req.year) \in DOMAIN storage]
          /\ storage' = delete_research(storage, req.company, req.quarter, req.year)
    /\ oOp' = "delete"
    /\ oQueries' = 0
    /\ oAi' = [kind |-> "none"]
    /\ UNCHANGED <<oCfg, oClock>>
    /\ OrchFrame

\* the content of a stored file is damaged outside the program
CorruptOne ==
    /\ oCfg.storage
    /\ \E f \in DOMAIN storage :
          /\ storage[f] # Corrupt
          /\ storage' = [storage EXCEPT ![f] = Corrupt]
    /\ oOp' = "corrupt"
    /\ oResult' = NotCalled
    /\ oQueries' = 0
    /\ oAi' = [kind |-> "none"]
    /\ UNCHANGED <<oCfg, oClock, oReq>>
    /\ OrchFrame

OrchNext ==
    \/ ResearchOne
    \/ DeleteOne
    \/ CorruptOne


-----------------------------------------------------------------------------
(* utils/progress_tracker.py *)

\* d[k] = v on a dict
Put(d, k, v) == [x \in DOMAIN d \cup {k} |-> IF x = k THEN v ELSE d[x]]

\* list.remove(x): the first occurrence goes
RECURSIVE RemoveFirst(_, _)
RemoveFirst(s, x) ==
    IF s = <<>> THEN <<>>
    ELSE IF Head(s) = x THEN Tail(s)
    ELSE <<Head(s)>> \o RemoveFirst(Tail(s), x)

\* ProgressTracker(total_items)
NewTracker(total_items) ==
    [total_items |-> total_items, completed_items |-> 0, failed_items |-> 0,
     in_progress_items |-> <<>>, item_details |-> EmptyDict]

\* f"{company}_{quarter}"
ItemId(company, quarter) == <<company, quarter>>

start_item(t, item_id) ==
    [t EXCEPT !.in_progress_items = Append(@, item_id),
              !.item_details = Put(@, item_id,
                                    [status |-> "in_progress", error |-> "None"])]

\* lines 41-42 and 53-54: `if item_id in self.in_progress_items: remove`
LeaveInProgress(t, item_id) ==
    [t EXCEPT !.in_progress_items = RemoveFirst(@, item_id)]

\* lines 45-47: the status of a completed item
MarkCompleted(details, item_id) ==
    IF item_id \in DOMAIN details
    THEN [details EXCEPT ![item_id].status = "completed"]
    ELSE details

\* lines 57-60: the status and error of a failed item
MarkFailed(details, item_id, error) ==
    IF item_id \in DOMAIN details
    THEN [details EXCEPT ![item_id].status = "failed", ![item_id].error = error]
    ELSE details

\* `self.completed_items += 1` / `self.failed_items += 1`: the value read
CounterRead(t, kind) ==
    IF kind = "complete" THEN t.completed_items ELSE t.failed_items

\* ... and the tracker after the write of read + 1 and of the item's status
CounterWrite(t, kind, read, item_id, error) ==
    IF kind = "complete"
    THEN [t EXCEPT !.completed_items = read + 1,
                   !.item_details = MarkCompleted(@, item_id)]
    ELSE [t EXCEPT !.failed_items = read + 1,
                   !.item_details = MarkFailed(@, item_id, error)]

-----------------------------------------------------------------------------
(* core/research_orchestrator.py: research_all_companies,                  *)
(* _research_sequential, _research_parallel, research_company_all_quarters *)

BatchCompanies == {"TCS", "Tech Mahindra"}

\* the longest list of companies a caller passes
MaxCompanies == 2

\* the lists a caller passes: duplicates are lists too
CompanyLists == UNION {[1..n -> BatchCompanies] : n \in 0..MaxCompanies}
QuarterLists == {<<"Q1">>, <<"Q1", "Q2">>}

BatchArgs ==
    {a \in [companies : CompanyLists, quarters : QuarterLists, year : {2024},
            parallel : BOOLEAN, max_workers : {1, 2, 3}] :
        IF a.parallel THEN a.max_workers \in {1, 2} ELSE a.max_workers = 3}

UnitsOf(a) ==
    {<<a.companies[i], a.quarters[j]>> :
        i \in DOMAIN a.companies, j \in DOMAIN a.quarters}

\* what the client does in a unit that raises, and in one that does not
RaisingOutcomes == {[kind |-> "client_raises"]}
QuietOutcomes ==
    {[kind |-> "none"],
     [kind |-> "text", company_mentioned |-> TRUE, quarter_mentioned |-> TRUE,
      data |-> [total_income |-> 100]]}

BasicCfg == [kind |-> "basic", storage |-> TRUE, use_moneycontrol |-> FALSE,
             client |-> TRUE]

NewTask ==
    [st |-> "queued", qi |-> 1, pc |-> "begin", existing |-> None,
     kind |-> "", err |-> "", read |-> 0, results |-> EmptyDict]

\* lines 175-184: the tracker with every item started
RECURSIVE StartAll(_, _)
StartAll(t, ids) ==
    IF ids = <<>> THEN t ELSE StartAll(start_item(t, Head(ids)), Tail(ids))

ItemIds(a) ==
    [k \in 1..(Len(a.companies) * Len(a.quarters)) |->
        ItemId(a.companies[((k - 1) \div Len(a.quarters)) + 1],
               a.quarters[((k - 1) % Len(a.quarters)) + 1])]

\* the except clause of research_company_all_quarters left out
UnitOutcomeUncaught(ret) == ret

\* lines 126-145: results[quarter] for what research_company_quarter did
UnitOutcome(ret) ==
    IF IsRaised(ret) THEN [status |-> "failed", error |-> ret.error] ELSE ret

\* lines 130-135 and 146-147: complete_item or fail_item, and its error
TrackKind(ret) ==
    IF ~IsRaised(ret) /\ Get(ret, "status", "") = "success"
    THEN "complete" ELSE "fail"

TrackError(ret) == Get(ret, "error", "Unknown")

\* ThreadPoolExecutor(max_workers): threads that may run tasks at once
WorkerLimit(a) == IF a.parallel THEN a.max_workers ELSE 1

Running(tasks) == {t \in DOMAIN tasks : tasks[t].st = "running"}

BatchRest ==
    /\ bMain = "start"
    /\ bTasks = <<>>
    /\ tracker = None
    /\ bResults = EmptyDict
    /\ bProduced = EmptyDict
    /\ bSaved = EmptyDict

BatchInit ==
    /\ bArgs \in BatchArgs
    /\ bRaise \in SUBSET UnitsOf(bArgs)
    /\ BatchRest

BatchOff ==
    /\ bArgs = [companies |-> <<>>, quarters |-> <<"Q1">>, year |-> 2024,
                parallel |-> FALSE, max_workers |-> 3]
    /\ bRaise = {}
    /\ BatchRest

BatchFrame ==
    UNCHANGED <<hybridVars, oCfg, oClock, oOp, oReq, oResult, oQueries, oAi,
                queryVars, rateVars,
                cacheVars,
                validateVars,
                deriveVars,
                extractVars,
                allVars,
                matchVars,
                scrapeVars,
                progressVars,
                exportVars>>

\* research_all_companies, lines 172-191: the tracker is built, every item is
\* started, and one task per entry of the list is set up
BStart ==
    /\ bMain = "start"
    /\ bMain' = "running"
    /\ tracker' = StartAll(NewTracker(Len(bArgs.companies) * Len(bArgs.quarters)),
                           ItemIds(bArgs))
    /\ bTasks' = [i \in DOMAIN bArgs.companies |-> NewTask]
    /\ bProduced' = [c \in Range(bArgs.companies) |-> <<>>]
    /\ bSaved' = [c \in Range(bArgs.companies) |-> <<>>]
    /\ UNCHANGED <<bArgs, bRaise, bResults, storage>>
    /\ BatchFrame

\* a pool thread (or, sequentially, the loop of _research_sequential) takes
\* the next entry of the list
TaskStart(t) ==
    /\ bMain = "running"
    /\ bTasks[t].st = "queued"
    /\ \A u \in 1..(t - 1) : bTasks[u].st # "queued"
    /\ Cardinality(Running(bTasks)) < WorkerLimit(bArgs)
    /\ ~bArgs.parallel => \A u \in 1..(t - 1) : bTasks[u].st = "collected"
    /\ bTasks' = [bTasks EXCEPT ![t].st = "running"]
    /\ UNCHANGED <<bArgs, bRaise, bMain, tracker, bResults, bProduced, bSaved,
                   storage>>
    /\ BatchFrame

\* research_company_quarter is entered for the task's next quarter: line 59
UnitBegin(t) ==
    /\ bTasks[t].st = "running"
    /\ bTasks[t].pc = "begin"
    /\ bTasks' = [bTasks EXCEPT
            ![t].pc = "research",
            ![t].existing = load_research(storage, bArgs.companies[t],
                                bArgs.quarters[bTasks[t].qi], bArgs.year)]
    /\ UNCHANGED <<bArgs, bRaise, bMain, tracker, bResults, bProduced, bSaved,
                   storage>>
    /\ BatchFrame

\* research_company_quarter returns or raises: lines 60-107, then 128, 142
UnitEnd(t) ==
    /\ bTasks[t].st = "running"
    /\ bTasks[t].pc = "research"
    /\ LET company == bArgs.companies[t]
           qi == bTasks[t].qi
           quarter == bArgs.quarters[qi]
           req == [company |-> company, quarter |-> quarter, year |-> bArgs.year]
       IN \E ai \in IF <<company, quarter>> \in bRaise
                    THEN RaisingOutcomes ELSE QuietOutcomes :
           LET out == IF Existing(bTasks[t].existing)
                      THEN Outcome(bTasks[t].existing, storage, 0)
                      ELSE ResearchFresh(storage, req, ai, oClock)
           IN /\ storage' = out.store
              /\ bTasks' = [bTasks EXCEPT
                    ![t].pc = "track",
                    ![t].existing = None,
                    ![t].kind = TrackKind(out.ret),
                    ![t].err = TrackError(out.ret),
                    ![t].results = Put(@, quarter, UnitOutcome(out.ret))]
              /\ bProduced' = [bProduced EXCEPT ![company] = Append(@, qi)]
              /\ bSaved' = IF out.store # storage
                           THEN [bSaved EXCEPT ![company] = Append(@, qi)]
                           ELSE bSaved
    /\ UNCHANGED <<bArgs, bRaise, bMain, tracker, bResults>>
    /\ BatchFrame

\* complete_item / fail_item up to the read of the counter
TrackRead(t) ==
    /\ bTasks[t].st = "running"
    /\ bTasks[t].pc = "track"
    /\ LET item_id == ItemId(bArgs.companies[t], bArgs.quarters[bTasks[t].qi]) IN
       /\ tracker' = LeaveInProgress(tracker, item_id)
       /\ bTasks' = [bTasks EXCEPT
                ![t].pc = "write",
                ![t].read = CounterRead(tracker, bTasks[t].kind)]
    /\ UNCHANGED <<bArgs, bRaise, bMain, bResults, bProduced, bSaved, storage>>
    /\ BatchFrame

\* complete_item / fail_item from the write of the counter on; the loop of
\* research_company_all_quarters moves to the next quarter or returns
TrackWrite(t) ==
    /\ bTasks[t].st = "running"
    /\ bTasks[t].pc = "write"
    /\ LET item_id == ItemId(bArgs.companies[t], bArgs.quarters[bTasks[t].qi]) IN
       tracker' = CounterWrite(tracker, bTasks[t].kind, bTasks[t].read,
                               item_id, bTasks[t].err)
    /\ bTasks' = [bTasks EXCEPT
            ![t].pc = "begin",
            ![t].read = 0,
            ![t].kind = "",
            ![t].err = "",
            ![t].qi = @ + 1,
            ![t].st = IF bTasks[t].qi = Len(bArgs.quarters)
                      THEN "done" ELSE "running"]
    /\ UNCHANGED <<bArgs, bRaise, bMain, bResults, bProduced, bSaved, storage>>
    /\ BatchFrame

\* the calling thread stores a finished task's results: line 205 / 229-230
Collect(t) ==
    /\ bMain = "running"
    /\ bTasks[t].st = "done"
    /\ bTasks' = [bTasks EXCEPT ![t].st = "collected"]
    /\ bResults' = Put(bResults, bArgs.companies[t], bTasks[t].results)
    /\ UNCHANGED <<bArgs, bRaise, bMain, tracker, bProduced, bSaved, storage>>
    /\ BatchFrame

\* research_all_companies returns all_results
BReturn ==
    /\ bMain = "running"
    /\ \A t \in DOMAIN bTasks : bTasks[t].st = "collected"
    /\ bMain' = "returned"
    /\ UNCHANGED <<bArgs, bRaise, bTasks, tracker, bResults, bProduced, bSaved,
                   storage>>
    /\ BatchFrame

BatchNext ==
    \/ BStart
    \/ \E t \in DOMAIN bTasks : TaskStart(t)
    \/ \E t \in DOMAIN bTasks : UnitBegin(t)
    \/ \E t \in DOMAIN bTasks : UnitEnd(t)
    \/ \E t \in DOMAIN bTasks : TrackRead(t)
    \/ \E t \in DOMAIN bTasks : TrackWrite(t)
    \/ \E t \in DOMAIN bTasks : Collect(t)
    \/ BReturn


-----------------------------------------------------------------------------
(* core/cache_manager.py: CacheManager; core/perplexity_client.py:         *)
(* PerplexityClient.query                                                  *)

\* the most attempts a caller asks for (the default of max_retries is 3)
MaxRetries == 3
\* the queries of one run
MaxQueries == 2

Prompts == {"p1", "p2"}

\* response.json() of a 200: a completion, or an empty JSON object
Bodies == {[choices |-> "content"], EmptyDict}

\* what one requests.post does
HttpOutcomes ==
    [kind : {"ok"}, body : Bodies]
        \cup {[kind |-> "bad_json"],      \* 200 whose body is not JSON
              [kind |-> "429"],
              [kind |-> "status"],        \* 5xx or another non-200 status
              [kind |-> "exception"]}     \* timeout, connection error

\* CacheManager.get: the file is absent, or expired (and then unlinked), or
\* its 'response' is returned
CacheGet(cache, key, expired) ==
    IF key \notin DOMAIN cache THEN [cache |-> cache, value |-> None]
    ELSE IF expired
    THEN [cache |-> [k \in DOMAIN cache \ {key} |-> cache[k]], value |-> None]
    ELSE [cache |-> cache, value |-> cache[key]]

\* a set that stores something else than the response it is given
CacheSetStatus(cache, key, response, wrote) ==
    Put(cache, key, [status_code |-> 200])

\* CacheManager.set: the file is written, or the error is logged
CacheSet(cache, key, response, wrote) ==
    IF wrote THEN Put(cache, key, response) ELSE cache

\* wait_time = 2 ** attempt
Backoff(attempt) == 2 ^ attempt

QueryIdle ==
    [pc |-> "idle", prompt |-> "", max_retries |-> 0, attempt |-> 0,
     hit |-> FALSE, outcomes |-> <<>>, sleeps |-> <<>>, ret |-> NotCalled,
     before |-> [cache |-> EmptyDict, limited |-> 0]]

QueryInit ==
    /\ qCfg \in [cache_manager : BOOLEAN]
    /\ qCache = EmptyDict
    /\ qCall = QueryIdle
    /\ qLimited = 0
    /\ qCount = 0

QueryOff ==
    /\ qCfg = [cache_manager |-> FALSE]
    /\ qCache = EmptyDict
    /\ qCall = QueryIdle
    /\ qLimited = 0
    /\ qCount = 0

QueryFrame == UNCHANGED <<hybridVars, orchVars, batchVars, rateVars,
                cacheVars,
                validateVars,
                deriveVars,
                extractVars,
                allVars,
                matchVars,
                scrapeVars,
                progressVars,
                exportVars>>

\* query, lines 114-159: the cache is asked first; on a miss the rate
\* limiter is passed and the loop over range(max_retries) is entered
QCall ==
    /\ qCall.pc = "idle"
    /\ qCount < MaxQueries
    /\ qCount' = qCount + 1
    /\ \E prompt \in Prompts, max_retries \in 0..MaxRetries, expired \in BOOLEAN :
        LET got == IF qCfg.cache_manager
                   THEN CacheGet(qCache, prompt, expired)
                   ELSE [cache |-> qCache, value |-> None]
            call == [QueryIdle EXCEPT !.prompt = prompt,
                                      !.max_retries = max_retries,
                                      !.before = [cache |-> qCache,
                                                  limited |-> qLimited]]
        IN /\ qCache' = got.cache
           /\ IF Truthy(got.value)
              THEN /\ qCall' = [call EXCEPT !.pc = "returned", !.hit = TRUE,
                                            !.ret = got.value]
                   /\ qLimited' = qLimited
              ELSE /\ qLimited' = qLimited + 1
                   /\ qCall' = IF max_retries = 0
                               THEN [call EXCEPT !.pc = "returned", !.ret = None]
                               ELSE [call EXCEPT !.pc = "attempt"]
    /\ UNCHANGED qCfg
    /\ QueryFrame

\* one pass of the loop, lines 159-192, and line 194 after the last pass
QAttempt ==
    /\ qCall.pc = "attempt"
    /\ \E o \in HttpOutcomes, wrote \in BOOLEAN :
        LET attempt == qCall.attempt
            posted == [qCall EXCEPT !.outcomes = Append(@, o)]
            slept == [posted EXCEPT
                        !.sleeps = Append(@, [after |-> attempt,
                                              secs |-> Backoff(attempt)])]
            waited == IF o.kind = "429" THEN slept
                      ELSE IF attempt < qCall.max_retries - 1 THEN slept
                      ELSE posted
        IN IF o.kind = "ok"
           THEN /\ qCache' = IF qCfg.cache_manager
                             THEN CacheSet(qCache, qCall.prompt, o.body, wrote)
                             ELSE qCache
                /\ qCall' = [posted EXCEPT !.pc = "returned", !.ret = o.body]
           ELSE /\ qCache' = qCache
                /\ qCall' = IF attempt + 1 < qCall.max_retries
                            THEN [waited EXCEPT !.attempt = attempt + 1]
                            ELSE [waited EXCEPT !.pc = "returned", !.ret = None]
    /\ UNCHANGED <<qCfg, qLimited, qCount>>
    /\ QueryFrame

\* the caller has the result; the client is ready for the next query
QDone ==
    /\ qCall.pc = "returned"
    /\ qCall' = QueryIdle
    /\ UNCHANGED <<qCfg, qCache, qLimited, qCount>>
    /\ QueryFrame

QueryNext ==
    \/ QCall
    \/ QAttempt
    \/ QDone

-----------------------------------------------------------------------------
(* core/perplexity_client.py: RateLimiter *)

\* `now - self.requests[0] > 60` and `60 - (now - self.requests[0])`
Window == 60

\* the largest requests_per_minute, and the calls of one run
MaxRpm == 2
MaxCalls == 4

\* seconds between the return of a call and the arrival of the next
Gaps == {0, 10, 59, 60, 61}

\* seconds time.sleep takes beyond what it was asked for
Overshoots == {0, 1}

\* lines 25-26: requests older than a minute leave from the left
RECURSIVE Prune(_, _)
Prune(requests, now) ==
    IF requests # <<>> /\ now - Head(requests) > Window
    THEN Prune(Tail(requests), now)
    ELSE requests

\* lines 22-36: the deque and the clock when the call that read `now`
\* returns; over is what each sleep takes beyond sleep_time
RECURSIVE wait_if_needed(_, _, _, _)
wait_if_needed(requests, rpm, now, over) ==
    LET pruned == Prune(requests, now)
        sleep_time == Window - (now - Head(pruned))
    IN IF Len(pruned) >= rpm /\ sleep_time > 0
       THEN LET inner == wait_if_needed(pruned, rpm, now + sleep_time + over, over)
            IN [requests |-> Append(inner.requests, now), clock |-> inner.clock]
       ELSE [requests |-> Append(pruned, now), clock |-> now]

\* the recorded requests whose timestamps lie in the 60 seconds before now
InWindow(requests, now) ==
    {i \in DOMAIN requests : now - requests[i] < Window}

NoCall == [arrived |-> 0, full |-> FALSE, oldest |-> 0, returned |-> 0]

RateRest ==
    /\ rRequests = <<>>
    /\ rClock = 0
    /\ rCalls = 0
    /\ rLast = NoCall

RateInit ==
    /\ rRpm \in 1..MaxRpm
    /\ RateRest

RateOff ==
    /\ rRpm = 1
    /\ RateRest

RateFrame == UNCHANGED <<hybridVars, orchVars, batchVars, queryVars,
                cacheVars,
                validateVars,
                deriveVars,
                extractVars,
                allVars,
                matchVars,
                scrapeVars,
                progressVars,
                exportVars>>

\* one caller calls wait_if_needed, some seconds after its last call returned
RCall ==
    /\ rCalls < MaxCalls
    /\ rCalls' = rCalls + 1
    /\ \E gap \in Gaps, over \in Overshoots :
        LET now == rClock + gap
            out == wait_if_needed(rRequests, rRpm, now, over)
            inWindow == {i \in InWindow(rRequests, now) :
                            \A j \in InWindow(rRequests, now) :
                                rRequests[i] <= rRequests[j]}
            full == Cardinality(InWindow(rRequests, now)) >= rRpm
        IN /\ rRequests' = out.requests
           /\ rClock' = out.clock
           /\ rLast' = [arrived |-> now,
                        full |-> full,
                        oldest |-> IF full
                                   THEN rRequests[CHOOSE i \in inWindow : TRUE]
                                   ELSE 0,
                        returned |-> out.clock]
    /\ UNCHANGED rRpm
    /\ RateFrame

RateNext == RCall

-----------------------------------------------------------------------------
(* core/cache_manager.py: CacheManager with its clock.  The directory works: *)
(* open, json.dump, json.load and unlink succeed.                           *)

\* the largest ttl_seconds, the latest time, the calls of one run
MaxTtl == 1
MaxTime == 2
MaxOps == 3

\* a dict of query parameters is its items in insertion order
ParamItems ==
    {<<"company", "TCS">>, <<"company", "Infosys">>, <<"quarter", "Q1">>}

QueryParams ==
    {q \in UNION {[1..n -> ParamItems] : n \in 1..2} :
        \A i, j \in DOMAIN q : q[i][1] = q[j][1] => i = j}

CachedResponses == {[revenue |-> 1], [revenue |-> 2]}

\* the names of the parameters in the order sort_keys gives them
SortedNames == <<"company", "quarter">>

NamesOf(q) == {q[i][1] : i \in DOMAIN q}
ValueOf(q, name) == q[CHOOSE i \in DOMAIN q : q[i][1] = name][2]

\* json.dumps(data, sort_keys=True): the items by name
DumpSorted(q) ==
    LET names == SelectSeq(SortedNames, LAMBDA n : n \in NamesOf(q))
    IN [i \in DOMAIN names |-> <<names[i], ValueOf(q, names[i])>>]

\* json.dumps(data) without sort_keys: the items as inserted
GenerateKeyUnsorted(q) == q

\* lines 29-32; the digest is one file name per dumped string
_generate_key(q) == DumpSorted(q)

\* the test of line 58 with >= for >
ExpiredAtTtl(now, cached_time, ttl) == now - cached_time >= ttl

\* line 58: time.time() - cached_time > self.ttl_seconds
Expired(now, cached_time, ttl) == now - cached_time > ttl

Remove(d, k) == [x \in DOMAIN d \ {k} |-> d[x]]

\* lines 34-71: the files, the stats and the returned value after get
get(files, stats, ttl, now, q) ==
    LET cache_key == _generate_key(q) IN
    IF cache_key \notin DOMAIN files
    THEN [files |-> files,
          stats |-> [stats EXCEPT !.misses = @ + 1],
          value |-> None]
    ELSE IF Expired(now, files[cache_key].timestamp, ttl)
    THEN [files |-> Remove(files, cache_key),
          stats |-> [stats EXCEPT !.misses = @ + 1],
          value |-> None]
    ELSE [files |-> files,
          stats |-> [stats EXCEPT !.hits = @ + 1],
          value |-> files[cache_key].response]

\* lines 73-95: the files after set
set(files, now, q, response) ==
    Put(files, _generate_key(q),
        [timestamp |-> now, query_params |-> q, response |-> response])

NewStats == [hits |-> 0, misses |-> 0]

CacheRest ==
    /\ cFiles = EmptyDict
    /\ cStats = NewStats
    /\ cClock = 0
    /\ cLast = [n |-> 0, op |-> "none"]
    /\ cWrote = EmptyDict

CacheInit ==
    /\ cTtl \in 0..MaxTtl
    /\ CacheRest

CacheOff ==
    /\ cTtl = 0
    /\ CacheRest

CacheFrame ==
    UNCHANGED <<hybridVars, orchVars, batchVars, queryVars, rateVars,
                validateVars,
                deriveVars,
                extractVars,
                allVars,
                matchVars,
                scrapeVars,
                progressVars,
                exportVars>>

\* the mapping a dict of query parameters is
AsMapping(q) == [n \in NamesOf(q) |-> ValueOf(q, n)]

\* cache.set(query_params, response)
CSet ==
    /\ cLast.n < MaxOps
    /\ \E q \in QueryParams, r \in CachedResponses :
        /\ cFiles' = set(cFiles, cClock, q, r)
        /\ cLast' = [n |-> cLast.n + 1, op |-> "set", q |-> q, response |-> r]
        /\ cWrote' = Put(cWrote, AsMapping(q),
                         [at |-> cClock, q |-> q, response |-> r])
    /\ UNCHANGED <<cTtl, cStats, cClock>>
    /\ CacheFrame

\* cache.get(query_params)
CGet ==
    /\ cLast.n < MaxOps
    /\ \E q \in QueryParams :
        LET out == get(cFiles, cStats, cTtl, cClock, q)
        IN /\ cFiles' = out.files
           /\ cStats' = out.stats
           /\ cLast' = [n |-> cLast.n + 1, op |-> "get", q |-> q,
                      value |-> out.value]
    /\ UNCHANGED <<cTtl, cClock, cWrote>>
    /\ CacheFrame

\* cache.clear(), lines 97-105
CClear ==
    /\ cLast.n < MaxOps
    /\ cFiles' = EmptyDict
    /\ cStats' = NewStats
    /\ cLast' = [n |-> cLast.n + 1, op |-> "clear"]
    /\ cWrote' = EmptyDict
    /\ UNCHANGED <<cTtl, cClock>>
    /\ CacheFrame

\* a second passes
CTick ==
    /\ cClock < MaxTime
    /\ cClock' = cClock + 1
    /\ UNCHANGED <<cTtl, cFiles, cStats, cLast, cWrote>>
    /\ CacheFrame

CacheNext ==
    \/ CSet
    \/ CGet
    \/ CClear
    \/ CTick

-----------------------------------------------------------------------------
(* core/data_models.py: QuarterlyData.calculate_derived_metrics.  A field  *)
(* is None, a number [num |-> n], a percentage [pct |-> <<x, total>>] for   *)
(* (x / total) * 100, or a value that is no number, [text |-> s].           *)

Number(n) == [num |-> n]
NoNumber == [text |-> "n/a"]

Primitives ==
    <<"total_income", "purchase_traded_goods", "stock_change",
      "employee_cost", "other_expenses", "depreciation", "interest",
      "other_income", "tax">>

\* lines 67-89: the steps of the chain, in order
Chain ==
    <<[target |-> "contribution", plus |-> <<"total_income">>,
       minus |-> <<"purchase_traded_goods", "stock_change">>],
      [target |-> "op_ebitda", plus |-> <<"contribution">>,
       minus |-> <<"employee_cost", "other_expenses">>],
      [target |-> "op_ebit", plus |-> <<"op_ebitda">>,
       minus |-> <<"depreciation">>],
      [target |-> "op_pbt", plus |-> <<"op_ebit">>, minus |-> <<"interest">>],
      [target |-> "pbt", plus |-> <<"op_pbt", "other_income">>, minus |-> <<>>],
      [target |-> "pat", plus |-> <<"pbt">>, minus |-> <<"tax">>]>>

\* lines 93-100: the margins, in order
Margins ==
    <<[target |-> "op_ebitda_pct", of |-> "op_ebitda"],
      [target |-> "op_ebit_pct", of |-> "op_ebit"],
      [target |-> "op_pbt_pct", of |-> "op_pbt"],
      [target |-> "pbt_pct", of |-> "pbt"]>>

Derived ==
    {Chain[i].target : i \in DOMAIN Chain}
        \cup {Margins[i].target : i \in DOMAIN Margins}

Inputs(step) == Range(step.plus) \cup Range(step.minus)

\* a step that computes when any one input is there
ReadyIfAny(obj, names) == \E n \in names : obj[n] # None

\* all(x is not None for x in [...])
Ready(obj, names) == \A n \in names : obj[n] # None

\* the operands are numbers: the arithmetic does not raise TypeError
Numeric(obj, names) == \A n \in names : "num" \in DOMAIN obj[n]

RECURSIVE Sum(_, _)
Sum(obj, names) ==
    IF names = <<>> THEN 0 ELSE obj[Head(names)].num + Sum(obj, Tail(names))

\* the right-hand side of a step's assignment
Formula(obj, step) == Number(Sum(obj, step.plus) - Sum(obj, step.minus))

\* (x / self.total_income) * 100
Pct(x, total_income) == [pct |-> <<x.num, total_income.num>>]

\* the object after an exception in step `at`, without what was computed
\* before it
Rollback(before, now, at) == [obj |-> before, failed_at |-> at]

\* line 102: the exception is caught; what was assigned stays assigned
Caught(before, now, at) == [obj |-> now, failed_at |-> at]

\* lines 92-100, step 7 of the call
RECURSIVE SetMargins(_, _)
SetMargins(obj, k) ==
    IF k > Len(Margins) THEN obj
    ELSE LET m == Margins[k] IN
         SetMargins(IF obj[m.of] # None
                    THEN [obj EXCEPT ![m.target] = Pct(obj[m.of], obj.total_income)]
                    ELSE obj,
                    k + 1)

MarginStep(before, obj) ==
    LET total_income == obj.total_income IN
    IF total_income = None THEN [obj |-> obj, failed_at |-> 0]
    ELSE IF "num" \notin DOMAIN total_income
    THEN Caught(before, obj, Len(Chain) + 1)
    ELSE IF total_income.num > 0
    THEN [obj |-> SetMargins(obj, 1), failed_at |-> 0]
    ELSE [obj |-> obj, failed_at |-> 0]

\* lines 66-103 from step k of the chain on
RECURSIVE RunFrom(_, _, _)
RunFrom(before, obj, k) ==
    IF k > Len(Chain) THEN MarginStep(before, obj)
    ELSE LET step == Chain[k] IN
         IF ~Ready(obj, Inputs(step)) THEN RunFrom(before, obj, k + 1)
         ELSE IF ~Numeric(obj, Inputs(step)) THEN Caught(before, obj, k)
         ELSE RunFrom(before,
                      [obj EXCEPT ![step.target] = Formula(obj, step)],
                      k + 1)

\* the object after the call, and the step whose exception was caught (0 if
\* none was raised)
calculate_derived_metrics(obj) == RunFrom(obj, obj, 1)

\* the values a primitive is constructed with
PrimitiveValues ==
    [total_income |-> {0, 5000}, purchase_traded_goods |-> {100},
     stock_change |-> {50}, employee_cost |-> {3000},
     other_expenses |-> {500}, depreciation |-> {200}, interest |-> {100},
     other_income |-> {150}, tax |-> {300}]

FieldChoices(f) ==
    {None, NoNumber} \cup {Number(v) : v \in PrimitiveValues[f]}

\* the nine primitives, at most one of them no number
PrimitiveSets ==
    {p \in [total_income : FieldChoices("total_income"),
            purchase_traded_goods : FieldChoices("purchase_traded_goods"),
            stock_change : FieldChoices("stock_change"),
            employee_cost : FieldChoices("employee_cost"),
            other_expenses : FieldChoices("other_expenses"),
            depreciation : FieldChoices("depreciation"),
            interest : FieldChoices("interest"),
            other_income : FieldChoices("other_income"),
            tax : FieldChoices("tax")] :
        Cardinality({f \in DOMAIN p : p[f] = NoNumber}) <= 1}

\* QuarterlyData(company, quarter, year, <primitives>): derived fields None
Fresh(p) ==
    [f \in DOMAIN p \cup Derived |-> IF f \in DOMAIN p THEN p[f] ELSE None]

\* the same with derived fields given to the constructor
Preset(p) ==
    [f \in DOMAIN p \cup Derived |->
        IF f \in DOMAIN p THEN p[f]
        ELSE IF f \in {Margins[i].target : i \in DOMAIN Margins}
        THEN [pct |-> <<1, 1>>]
        ELSE Number(7)]

NotCalledYet == [made |-> FALSE, raised |-> FALSE, failed_at |-> 0]

DeriveInit ==
    /\ dFresh \in BOOLEAN
    /\ \E p \in PrimitiveSets : dObj = IF dFresh THEN Fresh(p) ELSE Preset(p)
    /\ dCall = NotCalledYet

DeriveOff ==
    /\ dFresh = TRUE
    /\ dObj = Fresh([f \in Range(Primitives) |-> None])
    /\ dCall = NotCalledYet

DeriveFrame ==
    UNCHANGED <<hybridVars, orchVars, batchVars, queryVars, rateVars,
                cacheVars, validateVars,
                extractVars,
                allVars,
                matchVars,
                scrapeVars,
                progressVars,
                exportVars>>

\* q_data.calculate_derived_metrics()
Calculate ==
    /\ ~dCall.made
    /\ LET out == calculate_derived_metrics(dObj)
       IN /\ dObj' = out.obj
          /\ dCall' = [made |-> TRUE, raised |-> FALSE,
                       failed_at |-> out.failed_at]
    /\ UNCHANGED dFresh
    /\ DeriveFrame

DeriveNext == Calculate

-----------------------------------------------------------------------------
(* core/data_extractor.py: FinancialDataExtractor.extract_indicator.  What *)
(* the regular expressions find is an input: a text is its length, what    *)
(* pattern.search gives for each pattern of the indicator (nothing, or the *)
(* span of the match and its first group) and the one word in it that may  *)
(* be a period keyword, with its position.  Confidences are in hundredths. *)

Radius == 100

\* lines 36-150: the ordered pattern lists of three of the indicators
patterns ==
    [total_income |-> <<"md_table", "label_cr", "cr_label", "stood_at",
                        "label_plain">>,
     eps |-> <<"md_table", "label_rs", "rs_label">>,
     tax |-> <<"label_cr", "cr_label">>]

AskedIndicators == DOMAIN patterns \cup {"roe"}

PatternsOf(indicator) ==
    IF indicator \in DOMAIN patterns THEN patterns[indicator] ELSE <<>>

NoMatch == [matched |-> FALSE]

\* match.start(), match.end() and match.group(1) of the matches in a text
Matches ==
    {[matched |-> TRUE, start |-> 0, end |-> 20, group |-> "1,234.56"],
     [matched |-> TRUE, start |-> 150, end |-> 170, group |-> "300"],
     [matched |-> TRUE, start |-> 250, end |-> 290, group |-> "1,234.56"]}

\* _clean_number on the groups above, in hundredths
_clean_number ==
    [num_str \in {m.group : m \in Matches} |->
        CASE num_str = "1,234.56" -> 123456
          [] num_str = "300" -> 30000]

Words == {"Quarterly", "fy", "annual"}

WordLen == [w \in Words |-> CASE w = "Quarterly" -> 9
                              [] w = "fy" -> 2
                              [] w = "annual" -> 6]

\* str.lower()
Lower == [w \in Words |-> IF w = "Quarterly" THEN "quarterly" ELSE w]

\* line 197
PeriodKeywords == {"quarterly", "q1", "q2", "q3", "q4", "fy"}

NoWord == [word |-> "", at |-> 0]

WordPlaces == {49, 50, 120, 191, 192, 268, 269}

TextsFor(indicator) ==
    {t \in [len : {200, 300},
            found : [Range(PatternsOf(indicator)) -> {NoMatch} \cup Matches],
            occurs : {NoWord} \cup [word : Words, at : WordPlaces]] :
        /\ \A p \in DOMAIN t.found :
              t.found[p].matched => t.found[p].end <= t.len
        /\ t.occurs # NoWord => t.occurs.at + WordLen[t.occurs.word] <= t.len}

Max(a, b) == IF a >= b THEN a ELSE b

Min(a, b) == IF a <= b THEN a ELSE b

\* line 196: text[max(0, match.start()-100):min(len(text), match.end()+100)]
context_window(text, match) ==
    [from |-> Max(0, match.start - Radius),
     to |-> Min(text.len, match.end + Radius)]

\* line 197: any(word in context_window.lower() for word in [...])
KeywordNearby(text, window) ==
    /\ text.occurs # NoWord
    /\ Lower[text.occurs.word] \in PeriodKeywords
    /\ window.from <= text.occurs.at
    /\ text.occurs.at + WordLen[text.occurs.word] <= window.to

\* lines 189-201: the value and confidence of the match of pattern i
Scored(text, match, i) ==
    LET value == _clean_number[match.group]
        confidence == 95 - (i * 10)
    IN [value |-> value,
        confidence |-> IF KeywordNearby(text, context_window(text, match))
                       THEN Min(100, confidence + 5)
                       ELSE confidence]

\* a loop that returns the last match instead
RECURSIVE LastMatch(_, _, _)
LastMatch(plist, text, k) ==
    IF k > Len(plist) THEN None
    ELSE LET i == Len(plist) - k
             match == text.found[plist[i + 1]]
         IN IF match.matched THEN Scored(text, match, i)
            ELSE LastMatch(plist, text, k + 1)

\* lines 186-203: for i, pattern in enumerate(patterns), from the k-th on
RECURSIVE FirstMatch(_, _, _)
FirstMatch(plist, text, k) ==
    IF k > Len(plist) THEN None
    ELSE LET i == k - 1
             match == text.found[plist[k]]
         IN IF match.matched THEN Scored(text, match, i)
            ELSE FirstMatch(plist, text, k + 1)

\* extract_indicator with the pattern lists given
ExtractWith(lists, text, indicator) ==
    IF indicator \notin DOMAIN lists THEN None
    ELSE FirstMatch(lists[indicator], text, 1)

extract_indicator(text, indicator) == ExtractWith(patterns, text, indicator)

ExtractInit ==
    /\ xIndicator \in AskedIndicators
    /\ xText \in TextsFor(xIndicator)
    /\ xResult = NotCalled

ExtractOff ==
    /\ xIndicator = "roe"
    /\ xText = [len |-> 200, found |-> <<>>, occurs |-> NoWord]
    /\ xResult = NotCalled

ExtractFrame ==
    UNCHANGED <<hybridVars, orchVars, batchVars, queryVars, rateVars,
                cacheVars, validateVars, deriveVars,
                allVars,
                matchVars,
                scrapeVars,
                progressVars,
                exportVars>>

\* extractor.extract_indicator(text, indicator)
Extract ==
    /\ xResult = NotCalled
    /\ xResult' = extract_indicator(xText, xIndicator)
    /\ UNCHANGED <<xText, xIndicator>>
    /\ ExtractFrame

ExtractNext == Extract

-----------------------------------------------------------------------------
(* core/data_extractor.py: FinancialDataExtractor.extract_all_indicators.  *)
(* What extract_indicator returns per indicator and whether the text       *)
(* matches the "not available" pattern of an indicator are inputs.  Values *)
(* and confidences are in hundredths.                                      *)

\* the indicators of self.patterns followed here
ExtractedIndicators == {"total_income", "ebit", "pbt", "pat"}

Extraction(v, c) == [value |-> v, confidence |-> c]

\* extract_indicator(text, indicator): None or (value, confidence)
Extractions ==
    [total_income : {None} \cup {Extraction(v, 95) : v \in {100030, 100100, 1000000, 5000000}},
     ebit : {None, Extraction(30000, 85)},
     pbt : {None} \cup {Extraction(v, 95) : v \in {100000, 200000, 5000000}},
     pat : {None} \cup {Extraction(v, 75) : v \in {1550, 10000, 90000}}]

\* lines 218-227: the dict of the extractions that are not None
Collected(found) ==
    [i \in {k \in DOMAIN found : found[k] # None} |-> found[i]]

\* del results[k]
Del(results, k) == [i \in DOMAIN results \ {k} |-> results[i]]

\* a rule that removes PBT only when the two values are equal
CollidesWhenEqual(pbt, total_income) == pbt = total_income

\* line 232: abs(pbt - total_income) < 1.0
Collides(pbt, total_income) == Abs(pbt - total_income) < 100

\* lines 231-234
RemoveCollision(results) ==
    IF /\ "pbt" \in DOMAIN results
       /\ "total_income" \in DOMAIN results
       /\ Collides(results["pbt"].value, results["total_income"].value)
    THEN Del(results, "pbt")
    ELSE results

\* a rule that takes any PAT below 100 for a percentage
SmallPat(pat_val, income_val) == pat_val < 10000

\* line 241: pat_val < 100 and income_val > 10000
LooksLikePercentage(pat_val, income_val) ==
    pat_val < 10000 /\ income_val > 1000000

\* lines 237-243
RemovePercentage(results) ==
    IF /\ "pat" \in DOMAIN results
       /\ "total_income" \in DOMAIN results
       /\ LooksLikePercentage(results["pat"].value,
                              results["total_income"].value)
    THEN Del(results, "pat")
    ELSE results

\* lines 246-252: the values of the indicators marked not available go
RemoveUnavailable(results, marked) ==
    [i \in DOMAIN results \ marked |-> results[i]]

extract_all_indicators(found, marked) ==
    RemoveUnavailable(RemovePercentage(RemoveCollision(Collected(found))),
                      marked)

AllInit ==
    /\ aFound \in Extractions
    /\ aMarked \in SUBSET ExtractedIndicators
    /\ aResults = NotCalled

AllOff ==
    /\ aFound = [i \in ExtractedIndicators |-> None]
    /\ aMarked = {}
    /\ aResults = NotCalled

AllFrame ==
    UNCHANGED <<hybridVars, orchVars, batchVars, queryVars, rateVars,
                cacheVars, validateVars, deriveVars, extractVars,
                matchVars,
                scrapeVars,
                progressVars,
                exportVars>>

\* extractor.extract_all_indicators(text)
ExtractAll ==
    /\ aResults = NotCalled
    /\ aResults' = extract_all_indicators(aFound, aMarked)
    /\ UNCHANGED <<aFound, aMarked>>
    /\ AllFrame

AllNext == ExtractAll

-----------------------------------------------------------------------------
(* parsers/moneycontrol_scraper_v2.py: MoneycontrolScraperV2._match_indicator. *)
(* A text is the sequence of its characters.                                *)

\* lines 18-35, in the order of the dictionary
INDICATORS ==
    <<[key |-> "total_income",
       aliases |->
          <<<<"T", "o", "t", "a", "l", " ", "I", "n", "c", "o", "m", "e", " ", "F", "r", "o", "m", " ", "O", "p", "e", "r", "a", "t", "i", "o", "n", "s">>,
            <<"T", "o", "t", "a", "l", " ", "I", "n", "c", "o", "m", "e">>,
            <<"T", "o", "t", "a", "l", " ", "R", "e", "v", "e", "n", "u", "e">>,
            <<"R", "e", "v", "e", "n", "u", "e", " ", "F", "r", "o", "m", " ", "O", "p", "e", "r", "a", "t", "i", "o", "n", "s">>,
            <<"N", "e", "t", " ", "S", "a", "l", "e", "s">>,
            <<"S", "a", "l", "e", "s">>>>],
      [key |-> "ebitda",
       aliases |->
          <<<<"E", "B", "I", "T", "D", "A">>,
            <<"O", "p", "e", "r", "a", "t", "i", "n", "g", " ", "E", "B", "I", "T", "D", "A">>,
            <<"P", "B", "D", "I", "T">>>>],
      [key |-> "ebit",
       aliases |->
          <<<<"E", "B", "I", "T">>,
            <<"O", "p", "e", "r", "a", "t", "i", "n", "g", " ", "E", "B", "I", "T">>,
            <<"P", "B", "I", "T">>>>],
      [key |-> "pbt",
       aliases |->
          <<<<"P", "B", "T">>,
            <<"P", "r", "o", "f", "i", "t", " ", "B", "e", "f", "o", "r", "e", " ", "T", "a", "x">>,
            <<"P", "r", "o", "f", "i", "t", "/", "(", "L", "o", "s", "s", ")", " ", "B", "e", "f", "o", "r", "e", " ", "T", "a", "x">>>>],
      [key |-> "pat",
       aliases |->
          <<<<"P", "A", "T">>,
            <<"P", "r", "o", "f", "i", "t", " ", "A", "f", "t", "e", "r", " ", "T", "a", "x">>,
            <<"N", "e", "t", " ", "P", "r", "o", "f", "i", "t">>,
            <<"P", "r", "o", "f", "i", "t", "/", "(", "L", "o", "s", "s", ")", " ", "F", "o", "r", " ", "T", "h", "e", " ", "P", "e", "r", "i", "o", "d">>,
            <<"N", "e", "t", " ", "P", "r", "o", "f", "i", "t", "/", "(", "L", "o", "s", "s", ")", " ", "F", "o", "r", " ", "T", "h", "e", " ", "P", "e", "r", "i", "o", "d">>>>],
      [key |-> "employee_cost",
       aliases |->
          <<<<"E", "m", "p", "l", "o", "y", "e", "e", " ", "C", "o", "s", "t">>,
            <<"E", "m", "p", "l", "o", "y", "e", "e", " ", "B", "e", "n", "e", "f", "i", "t", " ", "E", "x", "p", "e", "n", "s", "e">>,
            <<"P", "e", "r", "s", "o", "n", "n", "e", "l", " ", "C", "o", "s", "t">>,
            <<"S", "t", "a", "f", "f", " ", "C", "o", "s", "t">>,
            <<"E", "m", "p", "l", "o", "y", "e", "e", "s", " ", "C", "o", "s", "t">>>>],
      [key |-> "other_expenses",
       aliases |->
          <<<<"O", "t", "h", "e", "r", " ", "E", "x", "p", "e", "n", "s", "e", "s">>,
            <<"O", "t", "h", "e", "r", " ", "E", "x", "p", "e", "n", "d", "i", "t", "u", "r", "e">>,
            <<"O", "p", "e", "r", "a", "t", "i", "n", "g", " ", "E", "x", "p", "e", "n", "s", "e", "s">>>>],
      [key |-> "depreciation",
       aliases |->
          <<<<"D", "e", "p", "r", "e", "c", "i", "a", "t", "i", "o", "n">>,
            <<"D", "e", "p", "r", "e", "c", "i", "a", "t", "i", "o", "n", " ", "A", "n", "d", " ", "A", "m", "o", "r", "t", "i", "s", "a", "t", "i", "o", "n">>,
            <<"D", "&", "A">>,
            <<"D", "e", "p", "r", "e", "c", "i", "a", "t", "i", "o", "n", " ", "A", "n", "d", " ", "A", "m", "o", "r", "t", "i", "z", "a", "t", "i", "o", "n", " ", "E", "x", "p", "e", "n", "s", "e", "s">>>>],
      [key |-> "interest",
       aliases |->
          <<<<"I", "n", "t", "e", "r", "e", "s", "t">>,
            <<"F", "i", "n", "a", "n", "c", "e", " ", "C", "o", "s", "t">>,
            <<"F", "i", "n", "a", "n", "c", "e", " ", "C", "o", "s", "t", "s">>,
            <<"I", "n", "t", "e", "r", "e", "s", "t", " ", "E", "x", "p", "e", "n", "s", "e">>>>],
      [key |-> "other_income",
       aliases |->
          <<<<"O", "t", "h", "e", "r", " ", "I", "n", "c", "o", "m", "e">>,
            <<"N", "o", "n", "-", "O", "p", "e", "r", "a", "t", "i", "n", "g", " ", "I", "n", "c", "o", "m", "e">>>>],
      [key |-> "tax",
       aliases |->
          <<<<"T", "a", "x">>,
            <<"T", "a", "x", " ", "E", "x", "p", "e", "n", "s", "e">>,
            <<"I", "n", "c", "o", "m", "e", " ", "T", "a", "x">>,
            <<"T", "a", "x", "a", "t", "i", "o", "n">>,
            <<"C", "u", "r", "r", "e", "n", "t", " ", "T", "a", "x">>>>],
      [key |-> "eps",
       aliases |->
          <<<<"E", "P", "S">>,
            <<"B", "a", "s", "i", "c", " ", "E", "P", "S">>,
            <<"D", "i", "l", "u", "t", "e", "d", " ", "E", "P", "S">>,
            <<"E", "a", "r", "n", "i", "n", "g", "s", " ", "P", "e", "r", " ", "S", "h", "a", "r", "e">>>>]>>

\* row labels that are no alias
OtherLabels ==
    {<<>>,
     <<"E", "q", "u", "i", "t", "y", " ", "S", "h", "a", "r", "e", " ", "C", "a", "p", "i", "t", "a", "l">>,
     <<"N", "e", "t", " ", "S", "a", "l", "e", "s", "/", "I", "n", "c", "o", "m", "e", " ", "f", "r", "o", "m", " ", "o", "p", "e", "r", "a", "t", "i", "o", "n", "s">>,
     <<" ", "E", "B", "I", "T", " ">>,
     <<"B", "a", "s", "i", "c", " ", "E", "P", "S", " ", "(", "R", "s", ".", ")">>,
     <<"R", "e", "s", "e", "r", "v", "e", "s">>}

AliasesOf(key) ==
    LET i == CHOOSE j \in DOMAIN INDICATORS : INDICATORS[j].key = key
    IN Range(INDICATORS[i].aliases)

AllAliases == UNION {Range(INDICATORS[i].aliases) : i \in DOMAIN INDICATORS}

UpperCase ==
    [A |-> "a", B |-> "b", C |-> "c", D |-> "d", E |-> "e", F |-> "f",
     G |-> "g", H |-> "h", I |-> "i", J |-> "j", K |-> "k", L |-> "l",
     M |-> "m", N |-> "n", O |-> "o", P |-> "p", Q |-> "q", R |-> "r",
     S |-> "s", T |-> "t", U |-> "u", V |-> "v", W |-> "w", X |-> "x",
     Y |-> "y", Z |-> "z"]

\* str.lower()
lower(text) ==
    [i \in DOMAIN text |->
        IF text[i] \in DOMAIN UpperCase THEN UpperCase[text[i]] ELSE text[i]]

\* str.strip()
RECURSIVE strip(_)
strip(text) ==
    IF text = <<>> THEN text
    ELSE IF Head(text) = " " THEN strip(Tail(text))
    ELSE IF text[Len(text)] = " " THEN strip(SubSeq(text, 1, Len(text) - 1))
    ELSE text

\* a in b, for strings
IsIn(a, b) ==
    \E i \in 0..(Len(b) - Len(a)) : SubSeq(b, i + 1, i + Len(a)) = a

\* lines 244-248: the two tests made on one alias
AliasHit(alias_lower, text_lower) ==
    \/ IsIn(alias_lower, text_lower)
    \/ IsIn(text_lower, alias_lower)
    \/ Len(alias_lower) > 5 /\ IsIn(SubSeq(alias_lower, 1, 5), text_lower)

\* return indicator_key
Matched(indicator_key) == [key |-> indicator_key]

\* lines 241-250 from the k-th indicator of the dictionary on
RECURSIVE MatchFrom(_, _)
MatchFrom(text_lower, k) ==
    IF k > Len(INDICATORS) THEN None
    ELSE IF \E j \in DOMAIN INDICATORS[k].aliases :
               AliasHit(lower(INDICATORS[k].aliases[j]), text_lower)
    THEN Matched(INDICATORS[k].key)
    ELSE MatchFrom(text_lower, k + 1)

_match_indicator(text) ==
    IF text = <<>> THEN None ELSE MatchFrom(strip(lower(text)), 1)

MatchInit ==
    /\ mLabel \in AllAliases \cup OtherLabels
    /\ mMatched = NotCalled

MatchOff ==
    /\ mLabel = <<>>
    /\ mMatched = NotCalled

MatchFrame ==
    UNCHANGED <<hybridVars, orchVars, batchVars, queryVars, rateVars,
                cacheVars, validateVars, deriveVars, extractVars, allVars,
                scrapeVars,
                progressVars,
                exportVars>>

\* matched_indicator = self._match_indicator(indicator_name)
MatchLabel ==
    /\ mMatched = NotCalled
    /\ mMatched' = _match_indicator(mLabel)
    /\ UNCHANGED mLabel
    /\ MatchFrame

MatchNext == MatchLabel

-----------------------------------------------------------------------------
(* parsers/moneycontrol_scraper_v2.py: scrape_company, parse_quarterly_table, *)
(* _extract_table_data, _parse_quarter_header, extract_specific_quarter;    *)
(* core/perplexity_client.py: _build_financial_query.  A header cell is     *)
(* what the two patterns of _parse_quarter_header find in it; a table has a *)
(* label column and one data row; an ordered dict is a sequence of          *)
(* [key, data] entries; the key f"{quarter}_{year}" is <<quarter, year>>     *)
(* and the key of a header without year is <<quarter>>.                     *)

YearStr(n, digits) == [n |-> n, digits |-> digits]

NoYearStr == [digits |-> 0]

MonthHeader(month, year_str) ==
    [kind |-> "month", month |-> month, year_str |-> year_str]

QuarterHeader(quarter, year_str) ==
    [kind |-> "quarter", quarter |-> quarter, year_str |-> year_str]

LabelHeader == [kind |-> "other"]

\* "Jun 2024", "Jun 2023", "Sep '24", "Dec 2024", "Mar 2025", "Q1 FY25",
\* "Q3", "Particulars"
Headers ==
    {MonthHeader("Jun", YearStr(2024, 4)), MonthHeader("Jun", YearStr(2023, 4)),
     MonthHeader("Sep", YearStr(24, 2)), MonthHeader("Dec", YearStr(2024, 4)),
     MonthHeader("Mar", YearStr(2025, 4)), QuarterHeader("Q1", YearStr(25, 2)),
     QuarterHeader("Q3", NoYearStr), LabelHeader}

\* lines 201-206
month_to_quarter ==
    [Jan |-> "Q3", Feb |-> "Q3", Mar |-> "Q4", Apr |-> "Q1", May |-> "Q1",
     Jun |-> "Q1", Jul |-> "Q2", Aug |-> "Q2", Sep |-> "Q2", Oct |-> "Q3",
     Nov |-> "Q3", Dec |-> "Q3"]

\* int(year_str) if len(year_str) == 4 else 2000 + int(year_str)
YearOf(year_str) == IF year_str.digits = 4 THEN year_str.n ELSE 2000 + year_str.n

\* lines 183-232
_parse_quarter_header(header) ==
    IF header.kind = "month"
    THEN LET quarter == month_to_quarter[header.month]
             year == YearOf(header.year_str)
         IN [quarter |-> quarter, year |-> year, key |-> <<quarter, year>>,
             header |-> header]
    ELSE IF header.kind = "quarter"
    THEN IF header.year_str # NoYearStr
         THEN [quarter |-> header.quarter, year |-> YearOf(header.year_str),
               key |-> <<header.quarter, YearOf(header.year_str)>>,
               header |-> header]
         ELSE [quarter |-> header.quarter, year |-> None,
               key |-> <<header.quarter>>, header |-> header]
    ELSE None

Dash == [text |-> "-"]

Plain(n) == [number |-> n]

\* lines 252-287, for a cell that is "-" or a plain number without unit
_parse_value(text) == IF text = Dash THEN None ELSE text.number

\* dict[key], dict.get and assignment on an ordered dict
HasKey(d, key) == \E i \in DOMAIN d : d[i].key = key

At(d, key) == d[CHOOSE i \in DOMAIN d : d[i].key = key].data

Assign(d, key, data) ==
    IF HasKey(d, key)
    THEN [i \in DOMAIN d |->
             IF d[i].key = key THEN [key |-> key, data |-> data] ELSE d[i]]
    ELSE Append(d, [key |-> key, data |-> data])

\* a.update(b), for dicts of indicators
Update(a, b) ==
    [i \in DOMAIN a \cup DOMAIN b |-> IF i \in DOMAIN b THEN b[i] ELSE a[i]]

\* lines 139-153: the cells of the row from column col_idx on
RECURSIVE StoreRow(_, _, _, _)
StoreRow(quarterly_data, table, matched_indicator, col_idx) ==
    IF col_idx > Len(table.headers) THEN quarterly_data
    ELSE LET quarter_info == _parse_quarter_header(table.headers[col_idx])
             value == IF col_idx <= Len(table.cells)
                      THEN _parse_value(table.cells[col_idx])
                      ELSE None
             stored ==
                IF quarter_info # None /\ col_idx <= Len(table.cells)
                       /\ table.cells[col_idx] # Dash
                THEN LET old == IF HasKey(quarterly_data, quarter_info.key)
                                THEN At(quarterly_data, quarter_info.key)
                                ELSE <<>>
                         datum == [value |-> value, confidence |-> 95,
                                   raw_text |-> table.cells[col_idx],
                                   year |-> quarter_info.year]
                     IN Assign(quarterly_data, quarter_info.key,
                               Update(old, [i \in {matched_indicator} |-> datum]))
                ELSE quarterly_data
         IN StoreRow(stored, table, matched_indicator, col_idx + 1)

\* lines 99-159: headers[1] and cells[1] are the label column
_extract_table_data(table) ==
    LET matched_indicator == _match_indicator(table.cells[1].label)
    IN IF \A i \in DOMAIN table.headers :
              _parse_quarter_header(table.headers[i]) = None
       THEN <<>>
       ELSE IF matched_indicator = None THEN <<>>
       ELSE StoreRow(<<>>, table, matched_indicator.key, 2)

\* lines 75-79: for quarter, indicators in table_data.items()
RECURSIVE Merge(_, _, _)
Merge(quarterly_data, table_data, k) ==
    IF k > Len(table_data) THEN quarterly_data
    ELSE LET quarter == table_data[k].key
             old == IF HasKey(quarterly_data, quarter)
                    THEN At(quarterly_data, quarter) ELSE <<>>
         IN Merge(Assign(quarterly_data, quarter,
                         Update(old, table_data[k].data)),
                  table_data, k + 1)

\* lines 63-93; _extract_from_divs (lines 161-181) returns an empty dict
RECURSIVE parse_quarterly_table(_, _, _)
parse_quarterly_table(quarterly_data, tables, t) ==
    IF t > Len(tables) THEN quarterly_data
    ELSE parse_quarterly_table(
             Merge(quarterly_data, _extract_table_data(tables[t]), 1),
             tables, t + 1)

\* lines 289-310
scrape_company(page) ==
    IF page.kind \in {"no_url", "no_html"} THEN <<>>
    ELSE parse_quarterly_table(<<>>, page.tables, 1)

\* str.upper() on the quarters asked for
upper(quarter) ==
    CASE quarter = "q2" -> "Q2"
      [] OTHER -> quarter

\* lines 312-340
extract_specific_quarter(page, quarter, year) ==
    LET quarterly_data == scrape_company(page)
        quarter_upper == upper(quarter)
        starting == {i \in DOMAIN quarterly_data :
                        quarterly_data[i].key[1] = quarter_upper}
    IN IF quarterly_data = <<>> THEN None
       ELSE IF year # 0 /\ HasKey(quarterly_data, <<quarter_upper, year>>)
       THEN At(quarterly_data, <<quarter_upper, year>>)
       ELSE IF starting # {}
       THEN quarterly_data[CHOOSE i \in starting : \A j \in starting : i <= j].data
       ELSE quarterly_data[1].data

\* perplexity_client.py lines 85-86
fy_context(year) ==
    IF year >= 2025 THEN <<"FY", year - 1, year % 100>> ELSE <<"FY", year>>

quarter_end_month ==
    [Q1 |-> "June", Q2 |-> "September", Q3 |-> "December", Q4 |-> "March"]

\* perplexity_client.py lines 88-89: the period the prompt names
_build_financial_query(quarter, year) ==
    [quarter |-> quarter,
     fy_context |-> fy_context(year),
     ending_month |-> IF quarter \in DOMAIN quarter_end_month
                      THEN quarter_end_month[quarter] ELSE "",
     ending_year |-> IF quarter # "Q4" THEN year - 1 ELSE year]

RowLabels == {<<"N", "e", "t", " ", "S", "a", "l", "e", "s">>, <<"E", "B", "I", "T">>}

\* a table of one data row: a label column, then `width` columns
TablesOf(width, cells) ==
    {[headers |-> <<LabelHeader>> \o h, cells |-> <<[label |-> l]>> \o c] :
        h \in [1..width -> Headers], l \in RowLabels, c \in cells}

Pages ==
    {[kind |-> "no_url"], [kind |-> "no_html"]}
        \cup {[kind |-> "html", tables |-> <<t>>] :
                 t \in TablesOf(1, {<<Plain(11)>>, <<Dash>>})
                          \cup TablesOf(2, {<<Plain(11), Plain(12)>>,
                                            <<Dash, Plain(12)>>})}
        \cup {[kind |-> "html", tables |-> <<t1, t2>>] :
                 t1 \in TablesOf(1, {<<Plain(11)>>}),
                 t2 \in TablesOf(1, {<<Plain(21)>>})}

ScrapeRequests ==
    [quarter : {"Q1", "q2", "Q3", "Q4"}, year : {2024, 2025}]

ScrapeInit ==
    /\ sReq \in ScrapeRequests
    /\ sPage \in Pages
    /\ sResult = NotCalled
    /\ sQuery = NotCalled

ScrapeOff ==
    /\ sReq = [quarter |-> "", year |-> 0]
    /\ sPage = [kind |-> "no_url"]
    /\ sResult = NotCalled
    /\ sQuery = NotCalled

ScrapeFrame ==
    UNCHANGED <<hybridVars, orchVars, batchVars, queryVars, rateVars,
                cacheVars, validateVars, deriveVars, extractVars, allVars,
                matchVars,
                progressVars,
                exportVars>>

\* hybrid_data_source.py line 135
ScrapeQuarter ==
    /\ sResult = NotCalled
    /\ sResult' = [returned |->
                      extract_specific_quarter(sPage, sReq.quarter, sReq.year)]
    /\ UNCHANGED <<sReq, sPage, sQuery>>
    /\ ScrapeFrame

\* the prompt of the AI adapter for the same request
BuildQuery ==
    /\ sQuery = NotCalled
    /\ sQuery' = _build_financial_query(sReq.quarter, sReq.year)
    /\ UNCHANGED <<sReq, sPage, sResult>>
    /\ ScrapeFrame

ScrapeNext == ScrapeQuarter \/ BuildQuery

-----------------------------------------------------------------------------
(* utils/progress_tracker.py: the tracker used by one thread, as           *)
(* research_all_companies with parallel=False uses it, and its metrics.    *)
(* A quotient a / b is the pair <<a, b>>.                                   *)

\* the most items a tracker is built for, and the latest time looked at
MaxItems == 3
MaxElapsed == 3

\* complete_item, lines 39-47
complete_item(t, item_id) ==
    CounterWrite(LeaveInProgress(t, item_id), "complete",
                 CounterRead(t, "complete"), item_id, "")

\* fail_item, lines 51-60
fail_item(t, item_id, error) ==
    CounterWrite(LeaveInProgress(t, item_id), "fail",
                 CounterRead(t, "fail"), item_id, error)

\* lines 64-68, in percent
get_progress_percent(t) ==
    IF t.total_items = 0 THEN <<100, 1>>
    ELSE <<t.completed_items * 100, t.total_items>>

\* line 77
remaining_items(t) == t.total_items - t.completed_items

\* lines 70-79: avg_time_per_item * remaining_items
get_eta_seconds(t, start_time, now) ==
    IF t.completed_items = 0 THEN None
    ELSE LET elapsed == now - start_time
         IN <<elapsed * remaining_items(t), t.completed_items>>

\* lines 81-86, in percent
get_success_rate(t) ==
    LET processed == t.completed_items + t.failed_items
    IN IF processed = 0 THEN <<100, 1>>
       ELSE <<t.completed_items * 100, processed>>

ProgressInit ==
    /\ pClock = 0
    /\ pStart = 0
    /\ \E total_items \in 0..MaxItems : pTracker = NewTracker(total_items)

ProgressOff ==
    /\ pClock = 0
    /\ pStart = 0
    /\ pTracker = NewTracker(0)

ProgressFrame ==
    UNCHANGED <<hybridVars, orchVars, batchVars, queryVars, rateVars,
                cacheVars, validateVars, deriveVars, extractVars, allVars,
                matchVars, scrapeVars,
                exportVars>>

\* research_orchestrator.py lines 180-184: the next item is started
PStart ==
    /\ Len(pTracker.in_progress_items) + pTracker.completed_items
           + pTracker.failed_items < pTracker.total_items
    /\ pTracker.completed_items + pTracker.failed_items = 0
    /\ pTracker' = start_item(pTracker, Len(pTracker.in_progress_items) + 1)
    /\ UNCHANGED <<pStart, pClock>>
    /\ ProgressFrame

AllStarted(t) ==
    Cardinality(DOMAIN t.item_details) = t.total_items

\* lines 130-132: the first item in progress is completed
PComplete ==
    /\ AllStarted(pTracker)
    /\ pTracker.in_progress_items # <<>>
    /\ pTracker' = complete_item(pTracker, Head(pTracker.in_progress_items))
    /\ UNCHANGED <<pStart, pClock>>
    /\ ProgressFrame

\* lines 133-135: the first item in progress has failed
PFail ==
    /\ AllStarted(pTracker)
    /\ pTracker.in_progress_items # <<>>
    /\ pTracker' = fail_item(pTracker, Head(pTracker.in_progress_items),
                             "Unknown")
    /\ UNCHANGED <<pStart, pClock>>
    /\ ProgressFrame

\* time passes
PTick ==
    /\ pClock < MaxElapsed
    /\ pClock' = pClock + 1
    /\ UNCHANGED <<pTracker, pStart>>
    /\ ProgressFrame

ProgressNext == PStart \/ PComplete \/ PFail \/ PTick

-----------------------------------------------------------------------------
(* export_to_quarterly_data, core/research_orchestrator.py and             *)
(* core/enhanced_orchestrator.py                                            *)

\* a mapping that names every primitive of QuarterlyData
field_mapping_all == [k \in Range(Primitives) |-> k]

\* field_mapping: extracted key -> QuarterlyData field
field_mapping ==
    [k \in {"total_income", "employee_cost", "other_expenses",
            "depreciation", "interest", "other_income", "tax"} |-> k]

\* the number a record holds for an indicator
PrimitiveValuesOr(k) ==
    IF k \in DOMAIN PrimitiveValues
    THEN CHOOSE v \in PrimitiveValues[k] : v > 0
    ELSE 700

\* the indicators a persisted record may hold
PersistedKeys == Range(Primitives) \cup {"pbt"}

\* how a record holds its values: {'value': v, ...} with a number, a zero
\* or None, or the bare number
Shapes == {"dict", "zero", "none", "bare"}

Entry(k, shape) ==
    LET v == Number(PrimitiveValuesOr(k))
    IN CASE shape = "dict" -> [value |-> v]
         [] shape = "zero" -> [value |-> Number(0)]
         [] shape = "none" -> [value |-> None]
         [] shape = "bare" -> v

\* storage.load_research: nothing, or the saved record
Researches ==
    {None} \cup
    {[status |-> st,
      extracted_data |-> [k \in keys |-> Entry(k, shape)]] :
        st \in {"success", "failed"}, keys \in SUBSET PersistedKeys,
        shape \in Shapes}

\* QuarterlyData(company, quarter, year, data_source)
NewQuarterlyData == Fresh([f \in Range(Primitives) |-> None])

isinstance_dict(value_data) == "value" \in DOMAIN value_data

\* `if value:`
Nonzero(value) == value # None /\ value # Number(0)

\* research_orchestrator.py, lines 291-294: the loop over field_mapping
Mapped(mapping, extracted) ==
    [f \in DOMAIN NewQuarterlyData |->
        IF \E k \in DOMAIN mapping \cap DOMAIN extracted : mapping[k] = f
        THEN LET k == CHOOSE k \in DOMAIN mapping \cap DOMAIN extracted :
                          mapping[k] = f
             IN extracted[k].value
        ELSE NewQuarterlyData[f]]

\* enhanced_orchestrator.py, lines 304-313: the loop over field_mapping
MappedEnhanced(mapping, extracted) ==
    [f \in DOMAIN NewQuarterlyData |->
        IF \E k \in DOMAIN mapping \cap DOMAIN extracted : mapping[k] = f
        THEN LET k == CHOOSE k \in DOMAIN mapping \cap DOMAIN extracted :
                          mapping[k] = f
                 value_data == extracted[k]
                 value == IF isinstance_dict(value_data)
                          THEN value_data.value ELSE value_data
             IN IF Nonzero(value) THEN value ELSE NewQuarterlyData[f]
        ELSE NewQuarterlyData[f]]

\* ResearchOrchestrator.export_to_quarterly_data, lines 252-298
export_to_quarterly_data(research) ==
    IF research = None THEN [returned |-> None]
    ELSE IF research.status # "success" THEN [returned |-> None]
    ELSE LET extracted == research.extracted_data
         IN IF \E k \in DOMAIN field_mapping \cap DOMAIN extracted :
                   ~isinstance_dict(extracted[k])
            THEN Raised("AttributeError")
            ELSE [returned |->
                    calculate_derived_metrics(
                        Mapped(field_mapping, extracted)).obj]

\* EnhancedResearchOrchestrator.export_to_quarterly_data, lines 265-320
export_to_quarterly_data_enhanced(has_storage, research) ==
    IF ~has_storage THEN [returned |-> None]
    ELSE IF research = None THEN [returned |-> None]
    ELSE IF DOMAIN research.extracted_data = {} THEN [returned |-> None]
    ELSE [returned |->
            calculate_derived_metrics(
                MappedEnhanced(field_mapping, research.extracted_data)).obj]

ExportInit ==
    /\ eStorage \in BOOLEAN
    /\ eResearch \in Researches
    /\ eExport = NotCalled

ExportOff ==
    /\ eStorage = FALSE
    /\ eResearch = None
    /\ eExport = NotCalled

ExportFrame ==
    UNCHANGED <<hybridVars, orchVars, batchVars, queryVars, rateVars,
                cacheVars, validateVars, deriveVars, extractVars, allVars,
                matchVars, scrapeVars, progressVars>>

\* ResearchOrchestrator: its storage is always there
Export ==
    /\ eExport = NotCalled
    /\ eStorage
    /\ eExport' = export_to_quarterly_data(eResearch)
    /\ UNCHANGED <<eStorage, eResearch>>
    /\ ExportFrame

ExportEnhanced ==
    /\ eExport = NotCalled
    /\ eExport' = export_to_quarterly_data_enhanced(eStorage, eResearch)
    /\ UNCHANGED <<eStorage, eResearch>>
    /\ ExportFrame

ExportNext == Export \/ ExportEnhanced

-----------------------------------------------------------------------------
(* The specifications: one subsystem runs, the others rest *)

\* HybridDataSource
Init == HybridInit /\ OrchOff /\ BatchOff /\ QueryOff /\ RateOff /\ CacheOff /\ ValidateOff /\ DeriveOff /\ ExtractOff /\ AllOff /\ MatchOff /\ ScrapeOff /\ ProgressOff /\ ExportOff

Next ==
    \/ HCall
    \/ HTryPerplexity
    \/ HTryMoneycontrol
    \/ HReturn

Spec == Init /\ [][Next]_vars

\* research_company_quarter and delete_research on one storage
InitOrch == OrchInit /\ HybridOff /\ BatchOff /\ QueryOff /\ RateOff /\ CacheOff /\ ValidateOff /\ DeriveOff /\ ExtractOff /\ AllOff /\ MatchOff /\ ScrapeOff /\ ProgressOff /\ ExportOff

SpecOrch == InitOrch /\ [][OrchNext]_vars

\* research_all_companies
InitBatch == BatchInit /\ OrchOff /\ HybridOff /\ QueryOff /\ RateOff /\ CacheOff /\ ValidateOff /\ DeriveOff /\ ExtractOff /\ AllOff /\ MatchOff /\ ScrapeOff /\ ProgressOff /\ ExportOff

SpecBatch == InitBatch /\ [][BatchNext]_vars

\* PerplexityClient.query
InitQuery == QueryInit /\ HybridOff /\ OrchOff /\ BatchOff /\ RateOff /\ CacheOff /\ ValidateOff /\ DeriveOff /\ ExtractOff /\ AllOff /\ MatchOff /\ ScrapeOff /\ ProgressOff /\ ExportOff

SpecQuery == InitQuery /\ [][QueryNext]_vars

\* RateLimiter.wait_if_needed
InitRate == RateInit /\ HybridOff /\ OrchOff /\ BatchOff /\ QueryOff /\ CacheOff /\ ValidateOff /\ DeriveOff /\ ExtractOff /\ AllOff /\ MatchOff /\ ScrapeOff /\ ProgressOff /\ ExportOff

SpecRate == InitRate /\ [][RateNext]_vars

\* CacheManager
InitCache ==
    CacheInit /\ HybridOff /\ OrchOff /\ BatchOff /\ QueryOff /\ RateOff /\ ValidateOff /\ DeriveOff /\ ExtractOff /\ AllOff /\ MatchOff /\ ScrapeOff /\ ProgressOff /\ ExportOff

SpecCache == InitCache /\ [][CacheNext]_vars

\* ExtractionValidator.validate
InitValidate ==
    ValidateInit /\ HybridOff /\ OrchOff /\ BatchOff /\ QueryOff /\ RateOff /\ CacheOff /\ DeriveOff /\ ExtractOff /\ AllOff /\ MatchOff /\ ScrapeOff /\ ProgressOff /\ ExportOff

SpecValidate == InitValidate /\ [][ValidateNext]_vars

\* QuarterlyData.calculate_derived_metrics
InitDerive ==
    DeriveInit /\ HybridOff /\ OrchOff /\ BatchOff /\ QueryOff /\ RateOff /\ CacheOff /\ ValidateOff /\ ExtractOff /\ AllOff /\ MatchOff /\ ScrapeOff /\ ProgressOff /\ ExportOff

SpecDerive == InitDerive /\ [][DeriveNext]_vars

\* FinancialDataExtractor.extract_indicator
InitExtract ==
    ExtractInit /\ HybridOff /\ OrchOff /\ BatchOff /\ QueryOff /\ RateOff /\ CacheOff /\ ValidateOff /\ DeriveOff /\ AllOff /\ MatchOff /\ ScrapeOff /\ ProgressOff /\ ExportOff

SpecExtract == InitExtract /\ [][ExtractNext]_vars

\* FinancialDataExtractor.extract_all_indicators
InitAll == AllInit /\ HybridOff /\ OrchOff /\ BatchOff /\ QueryOff /\ RateOff /\ CacheOff /\ ValidateOff /\ DeriveOff /\ ExtractOff /\ MatchOff /\ ScrapeOff /\ ProgressOff /\ ExportOff

SpecAll == InitAll /\ [][AllNext]_vars

\* MoneycontrolScraperV2._match_indicator
InitMatch == MatchInit /\ HybridOff /\ OrchOff /\ BatchOff /\ QueryOff /\ RateOff /\ CacheOff /\ ValidateOff /\ DeriveOff /\ ExtractOff /\ AllOff /\ ScrapeOff /\ ProgressOff /\ ExportOff

SpecMatch == InitMatch /\ [][MatchNext]_vars

\* MoneycontrolScraperV2.extract_specific_quarter
InitScrape == ScrapeInit /\ HybridOff /\ OrchOff /\ BatchOff /\ QueryOff /\ RateOff /\ CacheOff /\ ValidateOff /\ DeriveOff /\ ExtractOff /\ AllOff /\ MatchOff /\ ProgressOff /\ ExportOff

SpecScrape == InitScrape /\ [][ScrapeNext]_vars

\* ProgressTracker and its metrics
InitProgress == ProgressInit /\ HybridOff /\ OrchOff /\ BatchOff /\ QueryOff /\ RateOff /\ CacheOff /\ ValidateOff /\ DeriveOff /\ ExtractOff /\ AllOff /\ MatchOff /\ ScrapeOff /\ ExportOff

SpecProgress == InitProgress /\ [][ProgressNext]_vars

InitExport == ExportInit /\ HybridOff /\ OrchOff /\ BatchOff /\ QueryOff /\ RateOff /\ CacheOff /\ ValidateOff /\ DeriveOff /\ ExtractOff /\ AllOff /\ MatchOff /\ ScrapeOff /\ ProgressOff

SpecExport == InitExport /\ [][ExportNext]_vars

-----------------------------------------------------------------------------
(* Claims about HybridDataSource.extract_financial_data, under Spec *)

\* An adapter's return value that carries no usable data: nothing, or a
\* result whose extracted_data is empty
NoUsableData(r) ==
    \/ r = None
    \/ ("extracted_data" \in DOMAIN r /\ r.extracted_data = EmptyDict)

HasData(r) ==
    /\ "extracted_data" \in DOMAIN r
    /\ r.extracted_data # EmptyDict

C2_LabelledByProducer ==
    hPc = "done" =>
        /\ (hCalls = <<"AI">> =>
                /\ hResult = hAi
                /\ hResult.source = "Perplexity AI"
                /\ Get(hResult, "is_fallback", FALSE) = FALSE)
        /\ (hAi # NotCalled /\ hAi # None /\ NoUsableData(hAi) /\ HasData(hMc) =>
                /\ hResult.source = "Moneycontrol"
                /\ Get(hResult, "is_fallback", FALSE) = TRUE
                /\ "fallback_message" \in DOMAIN hResult
                /\ hResult.extracted_data = hMc.extracted_data)
        /\ (Get(hResult, "is_fallback", FALSE) = TRUE =>
                /\ hResult.source # "Perplexity AI"
                /\ HasData(hMc)
                /\ hResult.extracted_data = hMc.extracted_data)

\* the AI adapter returned a result with empty extracted_data and the scrape
\* adapter's data was returned
C2_Witness ==
    /\ hPc = "done"
    /\ hAiOut # NotCalled
    /\ hAiOut.kind = "text"
    /\ hAi.extracted_data = EmptyDict
    /\ HasData(hMc)
    /\ Get(hResult, "is_fallback", FALSE) = TRUE

\* C3: extract_financial_data never raises: whatever the adapters do it
\* returns a result carrying the request's company, quarter, year and an
\* extracted_data; when neither adapter yields non-empty extracted_data the
\* result has source "None", empty extracted_data, context_confidence 0 and
\* an error string.
C3_NeverRaisesWellFormed ==
    hPc = "done" =>
        /\ ~IsRaised(hResult)
        /\ {"company", "quarter", "year", "extracted_data"} \subseteq DOMAIN hResult
        /\ hResult.company = hReq.company
        /\ hResult.quarter = hReq.quarter
        /\ hResult.year = hReq.year
        /\ (~HasData(hAi) /\ ~HasData(hMc) =>
                /\ hResult.source = "None"
                /\ hResult.extracted_data = EmptyDict
                /\ hResult.context_confidence = 0
                /\ "error" \in DOMAIN hResult
                /\ hResult.error # "")

\* both adapters raised and the empty result was returned
C3_Witness ==
    /\ hPc = "done"
    /\ hAiOut # NotCalled
    /\ hAiOut.kind \in {"client_raises", "extract_raises"}
    /\ hMcOut # NotCalled
    /\ hMcOut.kind = "raises"
    /\ hResult.source = "None"

-----------------------------------------------------------------------------
(* Claims about research_company_quarter, under SpecOrch *)

PathOf(req) == _get_file_path(req.company, req.quarter, req.year)

\* a record persisted for exactly the key of req
StoredFor(store, req) ==
    /\ oCfg.storage
    /\ PathOf(req) \in DOMAIN store
    /\ store[PathOf(req)] # Corrupt
    /\ store[PathOf(req)].company = req.company
    /\ store[PathOf(req)].quarter = req.quarter
    /\ store[PathOf(req)].year = req.year

\* C4: a call of research_company_quarter for a key that has a persisted
\* record returns exactly that record, consults no source and leaves the
\* storage as it was; a second call for the same key returns what the first
\* returned.
C4_IdempotentShortCircuit ==
    [][/\ (oOp' = "research" /\ StoredFor(storage, oReq')) =>
            /\ oResult' = storage[PathOf(oReq')]
            /\ storage' = storage
            /\ oQueries' = 0
       /\ (oOp = "research" /\ oOp' = "research" /\ oReq' = oReq
             /\ StoredFor(storage, oReq')) =>
            oResult' = oResult]_vars

\* ResearchOrchestrator answered a call from the stored record
C4_Witness ==
    /\ oCfg.kind = "basic"
    /\ oOp = "research"
    /\ oQueries = 0
    /\ StoredFor(storage, oReq)
    /\ oResult = storage[PathOf(oReq)]

\* C5: a call of research_company_quarter that finds no record for its key
\* and returns leaves a record behind that load_research yields and that is
\* the record it returned, whatever the source query did.
C5_PersistsWhatItReturns ==
    [][(/\ oOp' = "research"
        /\ oCfg.storage
        /\ PathOf(oReq') \notin DOMAIN storage
        /\ ~IsRaised(oResult')) =>
            load_research(storage', oReq'.company, oReq'.quarter, oReq'.year)
                = oResult']_vars

\* C13: the storage keeps one record per (company, quarter, year) and the
\* keys are isolated: a save makes load_research of its key return the saved
\* record; delete_research returns true exactly when a file of its key
\* existed and makes load_research return None; and a save or a delete for
\* one key leaves what load_research returns for every other key as it was.
C13_KeysIsolated ==
    [][(oCfg.storage /\ oOp' \in {"research", "delete"}) =>
        LET k == oReq' IN
        /\ oOp' = "delete" =>
              /\ oResult'.deleted = (PathOf(k) \in DOMAIN storage)
              /\ load_research(storage', k.company, k.quarter, k.year) = None
        /\ (oOp' = "research" /\ storage' # storage) =>
              load_research(storage', k.company, k.quarter, k.year) = oResult'
        /\ \A other \in OrchRequests \ {k} :
              load_research(storage', other.company, other.quarter, other.year)
                = load_research(storage, other.company, other.quarter, other.year)
    ]_vars

\* C14: when the stored file of a key cannot be parsed, load_research
\* returns None, and a call of research_company_quarter for that key that
\* returns has consulted its sources again and has replaced the unparsable
\* file by the record it returns.
C14_CorruptIsNotFound ==
    [][(/\ oOp' = "research"
        /\ oCfg.storage
        /\ PathOf(oReq') \in DOMAIN storage
        /\ storage[PathOf(oReq')] = Corrupt) =>
            /\ load_research(storage, oReq'.company, oReq'.quarter,
                             oReq'.year) = None
            /\ ~IsRaised(oResult') =>
                /\ (oCfg.client \/ oCfg.use_moneycontrol) => oQueries' > 0
                /\ storage'[PathOf(oReq')] # Corrupt
                /\ load_research(storage', oReq'.company, oReq'.quarter,
                                 oReq'.year) = oResult'
    ]_vars

\* C17: whenever ResearchOrchestrator.research_company_quarter finds no
\* record for its key and the AI adapter returns a response from which an
\* indicator set is extracted, the call returns and the record with that
\* indicator set and its validation report is persisted, whatever the set is
\* and whether or not the validator accepts it.
C17_InvalidRecordsPersisted ==
    [][(/\ oOp' = "research"
        /\ oCfg.kind = "basic"
        /\ load_research(storage, oReq'.company, oReq'.quarter,
                         oReq'.year) = None
        /\ oAi'.kind = "text") =>
            LET stored == load_research(storage', oReq'.company,
                                        oReq'.quarter, oReq'.year)
            IN /\ ~IsRaised(oResult')
               /\ stored # None
               /\ stored = oResult'
               /\ stored.extracted_data = oAi'.data
               /\ stored.validation.valid \in BOOLEAN
    ]_vars

-----------------------------------------------------------------------------
(* Claims about research_all_companies, under SpecBatch *)

\* the research of a unit is in flight: research_company_quarter was entered
\* and has not returned
InFlight(t) == bTasks[t].st = "running" /\ bTasks[t].pc = "research"

AllWorkersFinished ==
    /\ bMain # "start"
    /\ \A t \in DOMAIN bTasks : bTasks[t].st \in {"done", "collected"}

Distinct(list) ==
    \A i, j \in DOMAIN list : list[i] = list[j] => i = j

NonDecreasing(seq) ==
    \A i, j \in DOMAIN seq : i < j => seq[i] <= seq[j]

\* C6: research_all_companies, sequential or parallel, comes to its return
\* whatever units raise, and then all_results has an entry for every
\* requested company with an outcome for every requested quarter; a unit that
\* raised is recorded as {status: failed, error: str(e)} and is failed, with
\* that error, in the progress tracker; a unit that did not raise carries a
\* result of research_company_quarter for its own company and quarter.
C6_BatchResilience ==
    /\ bMain # "returned" => ENABLED BatchNext
    /\ bMain = "returned" =>
        \A c \in Range(bArgs.companies) :
            /\ c \in DOMAIN bResults
            /\ \A q \in Range(bArgs.quarters) :
                /\ q \in DOMAIN bResults[c]
                /\ IF <<c, q>> \in bRaise
                   THEN /\ bResults[c][q] = [status |-> "failed", error |-> "client"]
                        /\ tracker.item_details[ItemId(c, q)].status = "failed"
                        /\ tracker.item_details[ItemId(c, q)].error = "client"
                   ELSE /\ {"company", "quarter", "status"} \subseteq DOMAIN bResults[c][q]
                        /\ bResults[c][q].company = c
                        /\ bResults[c][q].quarter = q

\* a parallel run of two companies returned: one unit raised, another did not
C6_Witness ==
    /\ bMain = "returned"
    /\ bArgs.parallel
    /\ bArgs.max_workers = 2
    /\ Len(bArgs.companies) = 2
    /\ \E u \in UnitsOf(bArgs) : u \in bRaise
    /\ \E u \in UnitsOf(bArgs) :
            u \notin bRaise /\ bResults[u[1]][u[2]].status = "success"

\* C7: in parallel mode, once every worker has finished, completed_items +
\* failed_items = total_items, in_progress_items is empty, and the two
\* counters equal the numbers of units whose status is completed and failed
\* (stated for lists of distinct companies and quarters, where every
\* requested unit is one item of the tracker).
C7_TrackerSafeUnderWorkers ==
    (/\ bArgs.parallel
     /\ Distinct(bArgs.companies)
     /\ Distinct(bArgs.quarters)
     /\ AllWorkersFinished) =>
        /\ tracker.completed_items + tracker.failed_items = tracker.total_items
        /\ tracker.in_progress_items = <<>>
        /\ tracker.completed_items =
             Cardinality({i \in DOMAIN tracker.item_details :
                            tracker.item_details[i].status = "completed"})
        /\ tracker.failed_items =
             Cardinality({i \in DOMAIN tracker.item_details :
                            tracker.item_details[i].status = "failed"})

\* C8: in parallel mode at most max_workers tasks run at once, no two
\* researches of the same company are in flight at the same time, and every
\* company's results are produced and persisted in the order of the
\* requested quarters list.
C8_OneCompanyOneWorker ==
    (bArgs.parallel /\ bMain # "start") =>
        /\ Cardinality(Running(bTasks)) <= bArgs.max_workers
        /\ \A t, u \in DOMAIN bTasks :
              (t # u /\ InFlight(t) /\ InFlight(u)) =>
                  bArgs.companies[t] # bArgs.companies[u]
        /\ \A c \in DOMAIN bProduced : NonDecreasing(bProduced[c])
        /\ \A c \in DOMAIN bSaved : NonDecreasing(bSaved[c])

-----------------------------------------------------------------------------
(* Claims about PerplexityClient.query, under SpecQuery *)

GoodResponse(o) == o.kind = "ok"

\* C9: a query that missed the cache has, when it returns, made at most
\* max_retries attempts; every attempt before the last one made was not a 200
\* response; it returns the body of the 200 that ended it, or None when
\* max_retries attempts all failed, and never an exception; and its waits
\* are exactly one wait of 2^k seconds after each attempt k (from 0) that
\* another attempt follows, so none after the final attempt.
C9_RetryWithBackoff ==
    (qCall.pc = "returned" /\ ~qCall.hit) =>
        LET made == Len(qCall.outcomes) IN
        /\ made <= qCall.max_retries
        /\ \A k \in 1..(made - 1) : ~GoodResponse(qCall.outcomes[k])
        /\ ~IsRaised(qCall.ret)
        /\ IF made > 0 /\ GoodResponse(qCall.outcomes[made])
           THEN qCall.ret = qCall.outcomes[made].body
           ELSE made = qCall.max_retries /\ qCall.ret = None
        /\ qCall.sleeps = [k \in 1..(made - 1) |->
                              [after |-> k - 1, secs |-> Backoff(k - 1)]]

-----------------------------------------------------------------------------
(* Claims about RateLimiter.wait_if_needed, under SpecRate *)

\* C10: whenever a call of wait_if_needed has returned, the recorded requests
\* whose timestamps lie within the 60 seconds before the return, the one just
\* recorded included, are at most requests_per_minute; and a call that
\* arrived with the window full returned only once the oldest request of the
\* window was 60 seconds old.
C10_SlidingWindow ==
    rCalls > 0 =>
        /\ Cardinality(InWindow(rRequests, rClock)) <= rRpm
        /\ rLast.full => rLast.returned - rLast.oldest >= Window

-----------------------------------------------------------------------------
(* Claims about CacheManager, under SpecCache *)

\* this step is a call of get
GetStep == cLast'.n = cLast.n + 1 /\ cLast'.op = "get"

\* C11: for an entry written by set at time T, a get of the same query
\* parameters at t with t - T <= ttl returns the stored response and counts
\* a hit; at t with t - T > ttl it returns None, counts a miss and removes
\* the file; and a get that finds no file returns None and counts a miss, so
\* that after the removal every get misses until the next set.
C11_CacheTtl ==
    [][GetStep =>
        LET q == cLast'.q
            m == AsMapping(q)
            hit == [cStats EXCEPT !.hits = @ + 1]
            miss == [cStats EXCEPT !.misses = @ + 1]
        IN /\ m \in DOMAIN cWrote =>
                IF cClock - cWrote[m].at <= cTtl
                THEN cLast'.value = cWrote[m].response /\ cStats' = hit
                ELSE /\ cLast'.value = None
                     /\ cStats' = miss
                     /\ _generate_key(q) \notin DOMAIN cFiles'
           /\ _generate_key(q) \notin DOMAIN cFiles =>
                cLast'.value = None /\ cStats' = miss
    ]_vars

\* an entry set with ttl 1 was asked for two seconds later
C11_Witness ==
    /\ cLast.op = "get"
    /\ cTtl = 1
    /\ AsMapping(cLast.q) \in DOMAIN cWrote
    /\ cClock - cWrote[AsMapping(cLast.q)].at = cTtl + 1
    /\ cLast.value = None
    /\ cStats.misses = 1

\* C12: a get within the TTL returns exactly the response of the last set
\* whose query parameters are the same mapping, in whatever order the
\* parameters were given to either call; a get of parameters not set since
\* the cache was created or cleared returns None.
C12_CacheRoundTrip ==
    [][GetStep =>
        LET m == AsMapping(cLast'.q)
        IN IF m \in DOMAIN cWrote
           THEN cClock - cWrote[m].at <= cTtl =>
                    cLast'.value = cWrote[m].response
           ELSE cLast'.value = None
    ]_vars

\* the second of two sets was read back with the parameters in another order
C12_Witness ==
    /\ cLast.op = "get"
    /\ cLast.n = 3
    /\ Len(cLast.q) = 2
    /\ AsMapping(cLast.q) \in DOMAIN cWrote
    /\ cWrote[AsMapping(cLast.q)].q # cLast.q
    /\ cLast.value = cWrote[AsMapping(cLast.q)].response
    /\ cLast.value = [revenue |-> 2]

-----------------------------------------------------------------------------
(* Claims about ExtractionValidator.validate, under SpecValidate *)

Returned(result) == result # NotCalled /\ ~IsRaised(result)

\* a message of the list has this part
Reports(messages, part) ==
    \E i \in DOMAIN messages : \E j \in DOMAIN messages[i] :
        messages[i][j] = part

Has(data, names) == names \subseteq DOMAIN data

\* C15: for every indicator set that has pbt and pat with pbt > 0 and
\* pat > pbt, whatever else it holds, the result validate returns has
\* valid = false and the PAT > PBT finding among its errors.
C15_ProfitHierarchyHardError ==
    (/\ Returned(vResult)
     /\ Has(vData, {"pbt", "pat"})
     /\ vData["pbt"] > 0
     /\ vData["pat"] > vData["pbt"]) =>
        /\ vResult.valid = FALSE
        /\ Reports(vResult.errors, "PAT > PBT - impossible")

\* does the indicator set have the soft anomaly that this part reports
Anomalous(data, part) ==
    CASE part = "PBT equals Total Income - likely extraction error" ->
            /\ Has(data, {"pbt", "total_income"})
            /\ Abs(data["pbt"] - data["total_income"]) < 1
      [] part = "PAT appears to be a percentage, not absolute value" ->
            /\ Has(data, {"pat", "total_income"})
            /\ data["pat"] < 100
            /\ data["total_income"] > 10000
      [] part = "EBITDA is negative" -> Has(data, {"ebitda"}) /\ data["ebitda"] < 0
      [] part = "EBIT is negative" -> Has(data, {"ebit"}) /\ data["ebit"] < 0
      [] part = "PBT is negative" -> Has(data, {"pbt"}) /\ data["pbt"] < 0
      [] part = "PAT is negative" -> Has(data, {"pat"}) /\ data["pat"] < 0
      [] part = "EBITDA margin seems unreasonably high" ->
            /\ Has(data, {"ebitda", "total_income"})
            /\ data["total_income"] > 0
            /\ 100 * data["ebitda"] > 50 * data["total_income"]
      [] part = "EBITDA < EBIT - incorrect hierarchy" ->
            /\ Has(data, {"ebitda", "ebit"})
            /\ data["ebitda"] < data["ebit"]
      [] part = "PBT >> EBIT - verify other income" ->
            /\ Has(data, {"ebit", "pbt"})
            /\ 100 * data["pbt"] > 150 * data["ebit"]

SoftFindings ==
    {"PBT equals Total Income - likely extraction error",
     "PAT appears to be a percentage, not absolute value",
     "EBITDA is negative", "EBIT is negative", "PBT is negative",
     "PAT is negative", "EBITDA margin seems unreasonably high",
     "EBITDA < EBIT - incorrect hierarchy",
     "PBT >> EBIT - verify other income"}

\* the soft anomalies of an indicator set
SoftAnomalies(data) == {part \in SoftFindings : Anomalous(data, part)}

HardFindings ==
    {"PAT > PBT - impossible",
     "Missing critical fields for Op. PBT calculation"}

\* C16: in the result validate returns, valid is false exactly when errors
\* is non-empty; every message in errors is a PAT > PBT or a
\* missing-critical-fields finding; every soft anomaly of the indicator set
\* is reported in warnings and none is in errors; so an indicator set with
\* soft anomalies only is valid.
C16_OnlyHardErrorsInvalidate ==
    Returned(vResult) =>
        /\ vResult.valid = (vResult.errors = <<>>)
        /\ \A i \in DOMAIN vResult.errors :
              \E part \in HardFindings : Reports(<<vResult.errors[i]>>, part)
        /\ \A part \in SoftAnomalies(vData) :
              /\ Reports(vResult.warnings, part)
              /\ ~Reports(vResult.errors, part)

-----------------------------------------------------------------------------
(* Claims about QuarterlyData.calculate_derived_metrics (SpecDerive)       *)

IsSet(x) == x # None

\* the nine primitives are numbers or absent
WellFormed(obj) == \A i \in DOMAIN Primitives : obj[Primitives[i]] # NoNumber

\* C18: on a freshly constructed object whose primitives are numbers or
\* absent, after calculate_derived_metrics each derived field equals its
\* formula when all its direct inputs are present and is unset otherwise, and
\* each margin x_pct is x / total_income * 100 exactly when x is present and
\* total_income > 0, and unset otherwise.
C18_DerivationChain ==
    (dCall.made /\ dFresh /\ WellFormed(dObj)) =>
        LET o == dObj IN
        /\ o.contribution =
              IF /\ IsSet(o.total_income)
                 /\ IsSet(o.purchase_traded_goods)
                 /\ IsSet(o.stock_change)
              THEN Number(o.total_income.num - o.purchase_traded_goods.num
                              - o.stock_change.num)
              ELSE None
        /\ o.op_ebitda =
              IF /\ IsSet(o.contribution)
                 /\ IsSet(o.employee_cost)
                 /\ IsSet(o.other_expenses)
              THEN Number(o.contribution.num - o.employee_cost.num
                              - o.other_expenses.num)
              ELSE None
        /\ o.op_ebit =
              IF IsSet(o.op_ebitda) /\ IsSet(o.depreciation)
              THEN Number(o.op_ebitda.num - o.depreciation.num)
              ELSE None
        /\ o.op_pbt =
              IF IsSet(o.op_ebit) /\ IsSet(o.interest)
              THEN Number(o.op_ebit.num - o.interest.num)
              ELSE None
        /\ o.pbt =
              IF IsSet(o.op_pbt) /\ IsSet(o.other_income)
              THEN Number(o.op_pbt.num + o.other_income.num)
              ELSE None
        /\ o.pat =
              IF IsSet(o.pbt) /\ IsSet(o.tax)
              THEN Number(o.pbt.num - o.tax.num)
              ELSE None
        /\ \A x \in {"op_ebitda", "op_ebit", "op_pbt", "pbt"} :
              LET x_pct == CASE x = "op_ebitda" -> o.op_ebitda_pct
                             [] x = "op_ebit" -> o.op_ebit_pct
                             [] x = "op_pbt" -> o.op_pbt_pct
                             [] x = "pbt" -> o.pbt_pct
              IN x_pct =
                    IF /\ IsSet(o[x])
                       /\ IsSet(o.total_income)
                       /\ o.total_income.num > 0
                    THEN [pct |-> <<o[x].num, o.total_income.num>>]
                    ELSE None

\* the example of verify_phase1.py: 5000/100/50/3000/500/200/100/150/300
\* gives 4850, 1350, 1150, 1050, 1200, 900 and an op_ebitda_pct of 27
C18_Witness ==
    /\ dCall.made
    /\ dFresh
    /\ dObj.total_income = Number(5000)
    /\ dObj.purchase_traded_goods = Number(100)
    /\ dObj.stock_change = Number(50)
    /\ dObj.employee_cost = Number(3000)
    /\ dObj.other_expenses = Number(500)
    /\ dObj.depreciation = Number(200)
    /\ dObj.interest = Number(100)
    /\ dObj.other_income = Number(150)
    /\ dObj.tax = Number(300)
    /\ dObj.contribution = Number(4850)
    /\ dObj.op_ebitda = Number(1350)
    /\ dObj.op_ebit = Number(1150)
    /\ dObj.op_pbt = Number(1050)
    /\ dObj.pbt = Number(1200)
    /\ dObj.pat = Number(900)
    /\ dObj.op_ebitda_pct # None
    /\ dObj.op_ebitda_pct.pct[1] * 100 = 27 * dObj.op_ebitda_pct.pct[2]

\* the fields the steps from k on assign
LaterTargets(k) ==
    {Chain[j].target : j \in {i \in DOMAIN Chain : i >= k}}
        \cup {Margins[i].target : i \in DOMAIN Margins}

\* C19: calculate_derived_metrics never raises; when a step fails, every
\* field computed before the failing step keeps its computed value, and the
\* failing step and all later steps leave their fields as they were.
C19_NeverRaises ==
    [][(~dCall.made /\ dCall'.made) =>
          /\ ~dCall'.raised
          /\ \A k \in 1..(Len(Chain) + 1) :
                dCall'.failed_at = k =>
                    /\ \A j \in 1..(k - 1) :
                          (\A n \in Inputs(Chain[j]) : IsSet(dObj[n])) =>
                              dObj'[Chain[j].target] =
                                  Number(Sum(dObj', Chain[j].plus)
                                             - Sum(dObj', Chain[j].minus))
                    /\ \A f \in LaterTargets(k) : dObj'[f] = dObj[f]]_vars

\* interest is no number: contribution, op_ebitda and op_ebit are computed,
\* op_pbt and everything after it are as they were
C19_Witness ==
    /\ dCall.made
    /\ ~dFresh
    /\ dCall.failed_at = 4
    /\ dObj.interest = NoNumber
    /\ dObj.contribution = Number(4850)
    /\ dObj.op_ebitda = Number(1350)
    /\ dObj.op_ebit = Number(1150)
    /\ dObj.op_pbt = Number(7)
    /\ dObj.pat = Number(7)
    /\ dObj.op_ebitda_pct = [pct |-> <<1, 1>>]

-----------------------------------------------------------------------------
(* Claims about FinancialDataExtractor.extract_indicator (SpecExtract)     *)

\* the ranks (from 0) of the patterns of the list that match the text
MatchingRanks(plist, text) ==
    {r \in 0..(Len(plist) - 1) : text.found[plist[r + 1]] # NoMatch}

Lowest(S) == CHOOSE r \in S : \A q \in S : r <= q

\* a period keyword lies wholly within 100 characters of the match
InWindowOf(text, match) ==
    /\ text.occurs # NoWord
    /\ text.occurs.word \in {"Quarterly", "fy"}
    /\ text.occurs.at >= match.start - 100
    /\ text.occurs.at >= 0
    /\ text.occurs.at + WordLen[text.occurs.word] <= match.end + 100
    /\ text.occurs.at + WordLen[text.occurs.word] <= text.len

Reversed(plist) == [k \in DOMAIN plist |-> plist[Len(plist) + 1 - k]]

\* C20: for a known indicator the result is absent exactly when no pattern
\* matches; otherwise value and confidence come from the earliest pattern of
\* the list that matches, the confidence being 0.95 - 0.10 * rank, plus 0.05
\* (at most 1.0) when a period keyword lies in the window of 100 characters
\* around the match; when the earliest and the latest matching pattern
\* capture different values, the reversed list gives another value.
C20_FirstMatchWins ==
    (xResult # NotCalled /\ xIndicator \in DOMAIN patterns) =>
        LET plist == patterns[xIndicator]
            ranks == MatchingRanks(plist, xText)
        IN /\ xResult = None <=> ranks = {}
           /\ ranks # {} =>
                 LET rank == Lowest(ranks)
                     match == xText.found[plist[rank + 1]]
                     base == 95 - 10 * rank
                     others == [i \in {xIndicator} |-> Reversed(plist)]
                     other == ExtractWith(others, xText, xIndicator)
                 IN /\ xResult.value = _clean_number[match.group]
                    /\ xResult.confidence =
                          IF InWindowOf(xText, match)
                          THEN (IF base + 5 > 100 THEN 100 ELSE base + 5)
                          ELSE base
                    /\ \A last \in ranks :
                          (/\ \A q \in ranks : q <= last
                           /\ xText.found[plist[last + 1]].group # match.group)
                              => other.value # xResult.value

\* the first and the fourth pattern of total_income match with different
\* values, a keyword is near the first match only: the first one wins with
\* confidence 1.0, the reversed list gives the other value
C20_Witness ==
    /\ xResult # NotCalled
    /\ xIndicator = "total_income"
    /\ xText.found["md_table"] # NoMatch
    /\ xText.found["md_table"].start = 0
    /\ xText.found["label_cr"] = NoMatch
    /\ xText.found["stood_at"] # NoMatch
    /\ xText.found["stood_at"].start = 150
    /\ xText.occurs = [word |-> "fy", at |-> 49]
    /\ xResult = [value |-> 123456, confidence |-> 100]
    /\ ExtractWith([total_income |-> Reversed(patterns.total_income)],
                   xText, xIndicator).value = 30000

-----------------------------------------------------------------------------
(* Claims about FinancialDataExtractor.extract_all_indicators (SpecAll)    *)

\* PBT and TotalIncome were both extracted and differ by less than 1.0
PbtNearIncome ==
    /\ aFound.pbt # None
    /\ aFound.total_income # None
    /\ aFound.pbt.value - aFound.total_income.value < 100
    /\ aFound.total_income.value - aFound.pbt.value < 100

\* PAT and TotalIncome were both extracted, PAT below 100 and TotalIncome
\* above 10,000
PatLikePercentage ==
    /\ aFound.pat # None
    /\ aFound.total_income # None
    /\ aFound.pat.value < 10000
    /\ aFound.total_income.value > 1000000

\* C21 as stated: whenever the extracted PBT and TotalIncome differ by less
\* than 1.0, PBT is absent from the returned set, and TotalIncome and every
\* other extracted indicator is in it with its extracted value.
C21_CollisionKeepsAllOthers ==
    (aResults # NotCalled /\ PbtNearIncome) =>
        /\ "pbt" \notin DOMAIN aResults
        /\ \A i \in ExtractedIndicators \ {"pbt"} :
              aFound[i] # None =>
                  i \in DOMAIN aResults /\ aResults[i] = aFound[i]

\* C21, amended: whenever the extracted PBT and TotalIncome differ by less
\* than 1.0, PBT is absent from the returned set; every indicator of the
\* returned set was extracted and has its extracted value and confidence;
\* and another extracted indicator is missing from it only when the text
\* marks it as not available or when it is a PAT below 100 next to a
\* TotalIncome above 10,000.
C21_CollisionRule ==
    (aResults # NotCalled /\ PbtNearIncome) =>
        /\ "pbt" \notin DOMAIN aResults
        /\ \A i \in DOMAIN aResults : aResults[i] = aFound[i]
        /\ \A i \in ExtractedIndicators \ {"pbt"} :
              (aFound[i] # None /\ i \notin DOMAIN aResults) =>
                  \/ i \in aMarked
                  \/ i = "pat" /\ PatLikePercentage

\* PBT 1000.0 and TotalIncome 1000.3: PBT is gone, the others are there
C21_Witness ==
    /\ aResults # NotCalled
    /\ aFound.pbt = Extraction(100000, 95)
    /\ aFound.total_income = Extraction(100030, 95)
    /\ aFound.pat # None
    /\ aFound.ebit # None
    /\ DOMAIN aResults = {"total_income", "ebit", "pat"}
    /\ aResults["total_income"] = Extraction(100030, 95)

\* C22: whenever the extracted PAT is below 100 while the extracted
\* TotalIncome is above 10,000, PAT is absent from the returned set; when
\* that does not hold and the text does not mark PAT as not available, an
\* extracted PAT is in the returned set with its extracted value.
C22_PercentageRule ==
    aResults # NotCalled =>
        /\ PatLikePercentage => "pat" \notin DOMAIN aResults
        /\ (aFound.pat # None /\ ~PatLikePercentage /\ "pat" \notin aMarked) =>
              "pat" \in DOMAIN aResults /\ aResults["pat"] = aFound.pat

\* PAT 15.5 and TotalIncome 50000: PAT is gone although nothing marks it
C22_Witness ==
    /\ aResults # NotCalled
    /\ aFound.pat = Extraction(1550, 75)
    /\ aFound.total_income = Extraction(5000000, 95)
    /\ aMarked = {}
    /\ "pat" \notin DOMAIN aResults
    /\ "total_income" \in DOMAIN aResults

-----------------------------------------------------------------------------
(* Claims about MoneycontrolScraperV2._match_indicator (SpecMatch)         *)

\* C29: for every alias listed in INDICATORS, _match_indicator applied to a
\* row label equal to that alias returns the indicator key under which the
\* alias is listed.
C29_AliasResolves ==
    (mMatched # NotCalled /\ mLabel \in AllAliases) =>
        /\ mMatched # None
        /\ mLabel \in AliasesOf(mMatched.key)

-----------------------------------------------------------------------------
(* Claims about the scrape adapter's period selection (SpecScrape)         *)

\* the data columns of the page's tables: the period the scraper reads from
\* the header, and the value of the cell
ColumnsOf(page) ==
    IF page.kind # "html" THEN {}
    ELSE {[key |-> _parse_quarter_header(page.tables[t].headers[c]).key,
           header |-> page.tables[t].headers[c],
           value |-> page.tables[t].cells[c].number] :
             <<t, c>> \in {tc \in (DOMAIN page.tables) \X (2..3) :
                 /\ tc[2] <= Len(page.tables[tc[1]].headers)
                 /\ page.tables[tc[1]].headers[tc[2]] # LabelHeader
                 /\ page.tables[tc[1]].cells[tc[2]] # Dash}}

RequestedKey == <<upper(sReq.quarter), sReq.year>>

\* C23: extract_specific_quarter returns indicator data only from a table
\* column whose period is the requested (quarter, year), and returns no data
\* when no table has a column for that period.
C23_PeriodSelection ==
    sResult # NotCalled =>
        /\ sResult.returned # None =>
              \A i \in DOMAIN sResult.returned :
                  \E col \in ColumnsOf(sPage) :
                      /\ col.value = sResult.returned[i].value
                      /\ col.key = RequestedKey
        /\ (\A col \in ColumnsOf(sPage) : col.key # RequestedKey) =>
              sResult.returned = None

MonthOfName ==
    [June |-> "Jun", September |-> "Sep", December |-> "Dec", March |-> "Mar"]

\* C30: when the scrape adapter selects the column of the requested
\* (quarter, year) and the column is headed by a month and a year, these are
\* the quarter-ending month and the calendar year the AI adapter names in its
\* prompt for the same (quarter, year).
C30_SamePeriod ==
    (/\ sResult # NotCalled
     /\ sQuery # NotCalled
     /\ sReq.quarter \in DOMAIN quarter_end_month
     /\ sResult.returned # None) =>
        \A i \in DOMAIN sResult.returned :
            \A col \in ColumnsOf(sPage) :
                (/\ col.value = sResult.returned[i].value
                 /\ col.key = RequestedKey
                 /\ col.header.kind = "month") =>
                    /\ col.header.month = MonthOfName[sQuery.ending_month]
                    /\ YearOf(col.header.year_str) = sQuery.ending_year

-----------------------------------------------------------------------------
(* Claims about the progress of research_all_companies (SpecBatch)         *)

\* what the tracker reports for an item
Reported(item_id) ==
    IF item_id \in DOMAIN tracker.item_details
    THEN tracker.item_details[item_id].status
    ELSE "not_started"

\* a worker is inside the research of the unit, or in the tracker call that
\* ends it
BeingResearched(item_id) ==
    \E t \in DOMAIN bTasks :
        /\ bTasks[t].st = "running"
        /\ bTasks[t].pc \in {"research", "track", "write"}
        /\ ItemId(bArgs.companies[t], bArgs.quarters[bTasks[t].qi]) = item_id

\* C24: a unit is reported in-progress only while it is being researched
\* (before that it is reported not-started), and when research_all_companies
\* has returned every unit is reported completed or failed.
C24_ProgressStateMachine ==
    tracker # None =>
        \A unit \in UnitsOf(bArgs) :
            LET item_id == ItemId(unit[1], unit[2]) IN
            /\ Reported(item_id) = "in_progress" => BeingResearched(item_id)
            /\ bMain = "returned" =>
                  Reported(item_id) \in {"completed", "failed"}

-----------------------------------------------------------------------------
(* Claims about the metrics of ProgressTracker (SpecProgress)              *)

\* the units that are neither completed nor failed
Unfinished(t) == t.total_items - t.completed_items - t.failed_items

\* C25: the success rate is completed / (completed + failed), 100% when
\* nothing has been processed; the ETA is unavailable until one unit has
\* completed and otherwise is the elapsed time per completed unit times the
\* number of units that are neither completed nor failed, hence 0 once every
\* unit is completed or failed.
C25_ProgressMetrics ==
    LET t == pTracker
        processed == t.completed_items + t.failed_items
        rate == get_success_rate(t)
        eta == get_eta_seconds(t, pStart, pClock)
    IN /\ IF processed = 0
          THEN rate[1] = 100 * rate[2]
          ELSE rate[1] * processed = t.completed_items * 100 * rate[2]
       /\ eta = None <=> t.completed_items = 0
       /\ t.completed_items > 0 =>
             /\ eta[1] * t.completed_items
                    = (pClock - pStart) * Unfinished(t) * eta[2]
             /\ Unfinished(t) = 0 => eta[1] = 0

-----------------------------------------------------------------------------
(* Claims about the request log of RateLimiter (SpecRate)                  *)

\* the log after the call is what the pruning left of the log, followed by
\* one timestamp
OneMore(before, after) ==
    \E k \in 0..Len(before) :
        /\ Len(after) = Len(before) - k + 1
        /\ \A i \in 1..(Len(before) - k) : after[i] = before[k + i]

\* C26: each call of wait_if_needed records exactly one request timestamp,
\* whether or not it had to wait, and the request log stays in non-decreasing
\* time order.
C26_OneTimestampPerCall ==
    [][rCalls' = rCalls + 1 =>
          /\ OneMore(rRequests, rRequests')
          /\ NonDecreasing(rRequests')]_vars

-----------------------------------------------------------------------------
(* Claims about the cache writes of PerplexityClient.query (SpecQuery)     *)

\* the query has returned None after a cache miss: every attempt failed
AllFailed == qCall.pc = "returned" /\ ~qCall.hit /\ qCall.ret = None

\* every entry holds a 200 response body, and a query answered from the
\* cache has sent no request and recorded none in the rate limiter
WritesAndHits ==
    /\ \A k \in DOMAIN qCache : qCache[k] \in Bodies
    /\ (qCall.pc = "returned" /\ qCall.hit) =>
          /\ qCall.outcomes = <<>>
          /\ qLimited = qCall.before.limited
          /\ qCache = qCall.before.cache

\* C27 as stated: every cache entry holds a 200 response body; a query whose
\* attempts all fail leaves the cache as it was when the query was called; a
\* query answered from the cache sends no HTTP request and records no request
\* in the rate limiter.
C27_FailedQueryLeavesCache ==
    /\ WritesAndHits
    /\ AllFailed => qCache = qCall.before.cache

\* C27, amended: every cache entry holds a 200 response body; a query whose
\* attempts all fail writes and alters no entry, and the only entry that may
\* be gone after it is an expired one for its own prompt, removed by the
\* lookup; a query answered from the cache sends no HTTP request, records no
\* request in the rate limiter and leaves the cache as it was.
C27_CacheWrittenOn200 ==
    /\ WritesAndHits
    /\ AllFailed =>
          /\ \A k \in DOMAIN qCache :
                k \in DOMAIN qCall.before.cache
                    /\ qCache[k] = qCall.before.cache[k]
          /\ DOMAIN qCall.before.cache \ DOMAIN qCache \subseteq {qCall.prompt}

\* a query with failed attempts has returned None and the entry an earlier
\* query wrote is still there
C27_Witness ==
    /\ AllFailed
    /\ Len(qCall.outcomes) >= 1
    /\ qCfg.cache_manager
    /\ qCall.before.cache # EmptyDict
    /\ qCache = qCall.before.cache

-----------------------------------------------------------------------------
(* Claims about export_to_quarterly_data (SpecExport)                      *)

\* the call gave a QuarterlyData
Exported == "returned" \in DOMAIN eExport /\ eExport.returned # None

\* C28: whatever indicators the persisted record contains, the exported
\* QuarterlyData has purchase_traded_goods and stock_change unset, and so
\* contribution, op_ebitda, op_ebit, op_pbt, pbt, pat and the four margin
\* percentages are unset after calculate_derived_metrics.
C28_NoDerivedMetrics ==
    Exported =>
        /\ eExport.returned.purchase_traded_goods = None
        /\ eExport.returned.stock_change = None
        /\ \A d \in Derived : eExport.returned[d] = None

\* a record with every indicator was exported, and the seven mapped fields
\* are set
C28_Witness ==
    /\ Exported
    /\ DOMAIN eResearch.extracted_data = PersistedKeys
    /\ \A k \in DOMAIN field_mapping :
          eExport.returned[field_mapping[k]] = Number(PrimitiveValuesOr(k))

====
